---------------------------- MODULE Spec2Model ----------------------------
(***************************************************************************)
(* Model of src/src/utils/neuralseek.ts (response normalisation, agent     *)
(* report builders, heuristic financial analyzer, agent boundary) and of   *)
(* the state and handlers of src/src/pages/FinancialHealthPage.tsx.        *)
(*                                                                         *)
(* Representation.                                                         *)
(*   - A JS string is the sequence of its characters (one-character TLA+   *)
(*     strings), so that trim, toLowerCase, startsWith, split and the      *)
(*     parsers are computed character by character as the code does.       *)
(*   - A JS number is an exact rational [n, d] in lowest terms with d > 0. *)
(*     IEEE rounding is not modelled.                                      *)
(*   - An untyped JS value is a record tagged by field t (its typeof /     *)
(*     Array.isArray class), its payload in a field named after the type.  *)
(*   - A JS object is the sequence of its [k, v] entries in insertion      *)
(*     order (the order Object.entries and object spread follow).          *)
(***************************************************************************)
EXTENDS Integers, Sequences, FiniteSets, TLC

VARIABLES
    pc,         \* position of the modelled call: "start" | "done"
    raw,        \* runFinancialHealthAgent / runCallNotesAgent: the agent's raw response
    input,      \* FinancialHealthInput handed to the report builders
    report,     \* the FinancialHealthReport returned (Undefined before)
    callResult, \* the CallAgentResult returned (Undefined before)
    nvIn,       \* normalizeVariableKeys: its argument
    nvOut,      \* normalizeVariableKeys: its result
    env,        \* import.meta.env: the VITE_NEURALSEEK_* settings
    requests,   \* the fetch calls issued so far, in order
    thrown,     \* the Error an agent call ended with (Undefined: none)
    form,       \* FinancialHealthPage: the form state
    error,      \* FinancialHealthPage: the error state (Null or a message)
    isLoading,  \* FinancialHealthPage: the isLoading state
    uploadedFiles, \* FinancialHealthPage: file name per statement field, or Null
    uploads,    \* FinancialHealthPage: the conversions awaited by handleSpreadsheetUpload
    invoked     \* the report builders handleSubmit has called, in order

netVars == <<env, requests, thrown>>

pageVars == <<form, error, isLoading, uploadedFiles, uploads, invoked>>

vars == <<pc, raw, input, report, callResult, nvIn, nvOut, netVars, pageVars>>

-----------------------------------------------------------------------------
(* Strings *)

UpperLetters == <<"A","B","C","D","E","F","G","H","I","J","K","L","M",
                  "N","O","P","Q","R","S","T","U","V","W","X","Y","Z">>
LowerLetters == <<"a","b","c","d","e","f","g","h","i","j","k","l","m",
                  "n","o","p","q","r","s","t","u","v","w","x","y","z">>

LetterIndex(tab, c) == CHOOSE j \in 1..26 : tab[j] = c

toLowerChar(c) ==
    IF \E j \in 1..26 : UpperLetters[j] = c
    THEN LowerLetters[LetterIndex(UpperLetters, c)] ELSE c

toUpperChar(c) ==
    IF \E j \in 1..26 : LowerLetters[j] = c
    THEN UpperLetters[LetterIndex(LowerLetters, c)] ELSE c

toLowerCase(s) == [i \in 1..Len(s) |-> toLowerChar(s[i])]

toUpperCase(s) == [i \in 1..Len(s) |-> toUpperChar(s[i])]

\* the characters the regex class \s and String.prototype.trim remove
WhiteSpace == {" ", "\n", "\r", "\t"}

Slice(s, from, to) == IF from > to THEN <<>> ELSE SubSeq(s, from, to)

\* index of the first / last character that is not white space (0 if none)
FirstNonSpace(s) ==
    IF \E i \in 1..Len(s) : s[i] \notin WhiteSpace
    THEN CHOOSE i \in 1..Len(s) :
            s[i] \notin WhiteSpace /\ \A j \in 1..(i-1) : s[j] \in WhiteSpace
    ELSE 0

LastNonSpace(s) ==
    IF \E i \in 1..Len(s) : s[i] \notin WhiteSpace
    THEN CHOOSE i \in 1..Len(s) :
            s[i] \notin WhiteSpace /\ \A j \in (i+1)..Len(s) : s[j] \in WhiteSpace
    ELSE 0

trim(s) ==
    IF FirstNonSpace(s) = 0 THEN <<>>
    ELSE SubSeq(s, FirstNonSpace(s), LastNonSpace(s))

\* String.prototype.startsWith / includes at a position
MatchAt(s, i, w) ==
    /\ i >= 1
    /\ i + Len(w) - 1 <= Len(s)
    /\ \A j \in 1..Len(w) : s[i + j - 1] = w[j]

startsWith(s, w) == MatchAt(s, 1, w)

includes(s, w) == \E i \in 1..(Len(s) + 1) : MatchAt(s, i, w)

\* String.prototype.indexOf / lastIndexOf of one character, 1-based (0: absent)
indexOf(s, c) ==
    IF \E i \in 1..Len(s) : s[i] = c
    THEN CHOOSE i \in 1..Len(s) : s[i] = c /\ \A j \in 1..(i-1) : s[j] # c
    ELSE 0

lastIndexOf(s, c) ==
    IF \E i \in 1..Len(s) : s[i] = c
    THEN CHOOSE i \in 1..Len(s) : s[i] = c /\ \A j \in (i+1)..Len(s) : s[j] # c
    ELSE 0

\* String.prototype.replace(/[set]/g, '')
RemoveChars(s, set) == SelectSeq(s, LAMBDA c : c \notin set)

\* characters a TLA+ string cannot hold are named: the bullet U+2022 and the
\* backtick U+0060
Bullet == "U+2022"
Backtick == "U+0060"

\* a source literal as its sequence of characters
Str(lit) == [i \in 1..Len(lit) |-> SubSeq(lit, i, i)]

-----------------------------------------------------------------------------
(* Numbers: exact rationals in lowest terms *)

Abs(i) == IF i < 0 THEN -i ELSE i

RECURSIVE Gcd(_, _)
Gcd(a, b) == IF b = 0 THEN a ELSE Gcd(b, a % b)

\* the rational n/d (d # 0) in lowest terms with a positive denominator
Rat(n, d) ==
    LET g == Gcd(Abs(n), Abs(d))
        s == IF d < 0 THEN -1 ELSE 1
    IN  [n |-> (s * n) \div g, d |-> (s * d) \div g]

RatInt(i) == [n |-> i, d |-> 1]
RatNeg(a) == [n |-> -a.n, d |-> a.d]
RatAbs(a) == [n |-> Abs(a.n), d |-> a.d]
RatMul(a, b) == Rat(a.n * b.n, a.d * b.d)
RatDiv(a, b) == Rat(a.n * b.d, a.d * b.n)
RatLT(a, b) == a.n * b.d < b.n * a.d
RatLE(a, b) == a.n * b.d <= b.n * a.d
RatGT(a, b) == RatLT(b, a)
RatGE(a, b) == RatLE(b, a)
RatMin(a, b) == IF RatLE(a, b) THEN a ELSE b
RatMax(a, b) == IF RatGE(a, b) THEN a ELSE b

-----------------------------------------------------------------------------
(* Untyped values *)

Undefined == [t |-> "undefined"]
Null      == [t |-> "null"]
StrV(s)   == [t |-> "string", s |-> s]
NumV(r)   == [t |-> "number", r |-> r]
BoolV(b)  == [t |-> "boolean", b |-> b]
ArrV(a)   == [t |-> "array", a |-> a]
ObjV(o)   == [t |-> "object", o |-> o]

\* a ?? b
Nullish(x) == x = Undefined \/ x = Null
Coalesce(a, b) == IF Nullish(a) THEN b ELSE a

\* isRecord (neuralseek.ts:125): a non-null, non-array object
isRecord(x) == x.t = "object"

-----------------------------------------------------------------------------
(* Objects: sequences of [k, v] entries in insertion order *)

HasKey(o, k) == \E i \in 1..Len(o) : o[i].k = k

KeyIndex(o, k) == CHOOSE i \in 1..Len(o) : o[i].k = k

\* property read  o[k]  (undefined when absent)
Get(o, k) == IF HasKey(o, k) THEN o[KeyIndex(o, k)].v ELSE Undefined

\* property write  o[k] = v : an existing key keeps its place, a new one is appended
Put(o, k, v) ==
    IF HasKey(o, k)
    THEN [o EXCEPT ![KeyIndex(o, k)] = [k |-> k, v |-> v]]
    ELSE Append(o, [k |-> k, v |-> v])

RECURSIVE Spread(_, _)
\* { ...a, ...b } : the entries of b written over a, in b's order
Spread(a, b) ==
    IF b = <<>> THEN a
    ELSE Spread(Put(a, b[1].k, b[1].v), Tail(b))

Keys(o) == {o[i].k : i \in 1..Len(o)}

-----------------------------------------------------------------------------
(* Decimal numerals *)

DigitChars == <<"0","1","2","3","4","5","6","7","8","9">>

IsDigit(c) == \E j \in 1..10 : DigitChars[j] = c

DigitVal(c) == (CHOOSE j \in 1..10 : DigitChars[j] = c) - 1

AllDigits(s) == \A i \in 1..Len(s) : IsDigit(s[i])

RECURSIVE DigitsValue(_)
DigitsValue(s) ==
    IF s = <<>> THEN 0
    ELSE DigitsValue(SubSeq(s, 1, Len(s) - 1)) * 10 + DigitVal(s[Len(s)])

RECURSIVE Pow10(_)
Pow10(k) == IF k = 0 THEN 1 ELSE 10 * Pow10(k - 1)

\* length of the run of digits of s that starts at i
RECURSIVE DigitRun(_, _)
DigitRun(s, i) ==
    IF i <= Len(s) /\ IsDigit(s[i]) THEN 1 + DigitRun(s, i + 1) ELSE 0

NaN == [t |-> "NaN"]

\* the numeral with integer digits ip and fraction digits fp (NaN when either
\* holds another character or both are empty)
DecimalOf(ip, fp) ==
    IF /\ AllDigits(ip) /\ AllDigits(fp)
       /\ Len(ip) + Len(fp) > 0
    THEN NumV(Rat(DigitsValue(ip) * Pow10(Len(fp)) + DigitsValue(fp),
                  Pow10(Len(fp))))
    ELSE NaN

\* s read around its first "." at index dot (0: no dot)
DecimalAround(s, dot) ==
    DecimalOf(IF dot = 0 THEN s ELSE SubSeq(s, 1, dot - 1),
              IF dot = 0 THEN <<>> ELSE SubSeq(s, dot + 1, Len(s)))

\* the unsigned numeral  digits [. digits]  |  . digits   (NaN otherwise)
UnsignedDecimal(s) == DecimalAround(s, indexOf(s, "."))

\* the numeral u with a minus sign in front when neg
Signed(neg, u) == IF neg /\ u # NaN THEN NumV(RatNeg(u.r)) ELSE u

\* Number(w) for a trimmed, non-empty w
SignedDecimal(w) ==
    Signed(w[1] = "-",
           UnsignedDecimal(IF w[1] \in {"-", "+"} THEN Tail(w) ELSE w))

\* Number(w) for a trimmed w
NumberOfTrimmed(w) == IF w = <<>> THEN NumV(RatInt(0)) ELSE SignedDecimal(w)

\* Number(s) for a string s: white space trimmed, "" is 0, an optionally signed
\* decimal numeral is its value, anything else NaN.  (Exponents, radix prefixes
\* and "Infinity" are outside the strings the model draws.)
NumberOfString(s) == NumberOfTrimmed(trim(s))

RECURSIVE NatToString(_)
NatToString(i) ==
    IF i < 10 THEN <<DigitChars[i + 1]>>
    ELSE NatToString(i \div 10) \o <<DigitChars[(i % 10) + 1]>>

RECURSIVE FractionDigits(_, _, _)
\* the decimal digits of rem/d (0 <= rem < d), at most fuel of them
FractionDigits(rem, d, fuel) ==
    IF rem = 0 \/ fuel = 0 THEN <<>>
    ELSE <<DigitChars[((rem * 10) \div d) + 1]>>
         \o FractionDigits((rem * 10) % d, d, fuel - 1)

\* Number.prototype.toString() of a finite number in plain decimal notation
NumberToString(r) ==
    LET a    == Abs(r.n)
        frac == FractionDigits(a % r.d, r.d, 17)
    IN  (IF r.n < 0 THEN <<"-">> ELSE <<>>)
        \o NatToString(a \div r.d)
        \o (IF frac = <<>> THEN <<>> ELSE <<".">> \o frac)

-----------------------------------------------------------------------------
(* JSON.parse, for texts without string escapes and without exponents *)

JsonFail == [ok |-> FALSE, val |-> Undefined, pos |-> 0]
JsonOk(v, p) == [ok |-> TRUE, val |-> v, pos |-> p]

RECURSIVE SkipWs(_, _)
SkipWs(s, i) ==
    IF i <= Len(s) /\ s[i] \in WhiteSpace THEN SkipWs(s, i + 1) ELSE i

\* a string literal opening at s[i] = '"' whose closing quote is close
\* characters further (0: there is none)
JsonStringUpTo(s, i, close) ==
    IF close = 0 \/ \E j \in (i + 1)..(i + close - 1) : s[j] \in {"\\", "\n"}
    THEN JsonFail
    ELSE JsonOk(StrV(SubSeq(s, i + 1, i + close - 1)), i + close + 1)

\* a string literal opening at s[i] = '"'
JsonString(s, i) == JsonStringUpTo(s, i, indexOf(SubSeq(s, i + 1, Len(s)), "\""))

\* a number literal whose digits start at s[j], the integer part ending before
\* s[k] and the literal before s[stop]
JsonNumberUpTo(s, neg, j, k, stop) ==
    IF \/ k = j
       \/ (k - j > 1 /\ s[j] = "0")
       \/ stop = k + 1
       \/ (stop <= Len(s) /\ s[stop] \in {"e", "E"})
    THEN JsonFail
    ELSE JsonOk(Signed(neg, UnsignedDecimal(SubSeq(s, j, stop - 1))), stop)

\* the optional fraction after the integer digits s[j..k-1]
JsonNumberFraction(s, neg, j, k) ==
    JsonNumberUpTo(s, neg, j, k,
                   IF k <= Len(s) /\ s[k] = "." THEN k + 1 + DigitRun(s, k + 1)
                   ELSE k)

\* the integer digits from s[j] on
JsonNumberDigits(s, neg, j) == JsonNumberFraction(s, neg, j, j + DigitRun(s, j))

\* a number literal starting at s[i]:  -? int (. digits)?
JsonNumber(s, i) == JsonNumberDigits(s, s[i] = "-", IF s[i] = "-" THEN i + 1 ELSE i)

JsonTrue  == <<"t","r","u","e">>
JsonFalse == <<"f","a","l","s","e">>
JsonNull  == <<"n","u","l","l">>

RECURSIVE JsonValue(_, _)
RECURSIVE JsonElements(_, _, _)
RECURSIVE JsonMembers(_, _, _)

\* after an element of an array: s[j] is "," or "]", acc holds the elements read
JsonElementsNext(s, j, acc) ==
    IF j > Len(s) THEN JsonFail
    ELSE IF s[j] = "," THEN JsonElements(s, j + 1, acc)
    ELSE IF s[j] = "]" THEN JsonOk(ArrV(acc), j + 1)
    ELSE JsonFail

\* the element e read, the rest of the array follows
JsonElementsAfter(s, e, acc) ==
    IF ~e.ok THEN JsonFail
    ELSE JsonElementsNext(s, SkipWs(s, e.pos), Append(acc, e.val))

\* the elements of an array from s[i] on, acc holding those already read
JsonElements(s, i, acc) == JsonElementsAfter(s, JsonValue(s, i), acc)

\* after a member of an object: s[j] is "," or "}"
JsonMembersNext(s, j, acc) ==
    IF j > Len(s) THEN JsonFail
    ELSE IF s[j] = "," THEN JsonMembers(s, j + 1, acc)
    ELSE IF s[j] = "}" THEN JsonOk(ObjV(acc), j + 1)
    ELSE JsonFail

\* a repeated key keeps its first place and takes the last value
JsonMemberAfter(s, key, e, acc) ==
    IF ~e.ok THEN JsonFail
    ELSE JsonMembersNext(s, SkipWs(s, e.pos), Put(acc, key, e.val))

\* the colon at s[c] and the value after it
JsonMemberValue(s, key, c, acc) ==
    IF c <= Len(s) /\ s[c] = ":"
    THEN JsonMemberAfter(s, key, JsonValue(s, c + 1), acc)
    ELSE JsonFail

\* the key literal k read, the colon follows
JsonMemberColon(s, k, acc) ==
    IF ~k.ok THEN JsonFail
    ELSE JsonMemberValue(s, k.val.s, SkipWs(s, k.pos), acc)

\* the key literal that must open at s[kq]
JsonMemberKey(s, kq, acc) ==
    IF kq <= Len(s) /\ s[kq] = "\""
    THEN JsonMemberColon(s, JsonString(s, kq), acc)
    ELSE JsonFail

\* the members of an object from s[i] on, acc holding those already read
JsonMembers(s, i, acc) == JsonMemberKey(s, SkipWs(s, i), acc)

\* an array / object whose first character after the bracket is s[j]
JsonArray(s, j) ==
    IF j <= Len(s) /\ s[j] = "]" THEN JsonOk(ArrV(<<>>), j + 1)
    ELSE JsonElements(s, j, <<>>)

JsonObject(s, j) ==
    IF j <= Len(s) /\ s[j] = "}" THEN JsonOk(ObjV(<<>>), j + 1)
    ELSE JsonMembers(s, j, <<>>)

\* the value that starts at s[j]
JsonValueAt(s, j) ==
    IF j > Len(s) THEN JsonFail
    ELSE IF s[j] = "\"" THEN JsonString(s, j)
    ELSE IF s[j] = "[" THEN JsonArray(s, SkipWs(s, j + 1))
    ELSE IF s[j] = "{" THEN JsonObject(s, SkipWs(s, j + 1))
    ELSE IF s[j] = "-" \/ IsDigit(s[j]) THEN JsonNumber(s, j)
    ELSE IF MatchAt(s, j, JsonTrue) THEN JsonOk(BoolV(TRUE), j + 4)
    ELSE IF MatchAt(s, j, JsonFalse) THEN JsonOk(BoolV(FALSE), j + 5)
    ELSE IF MatchAt(s, j, JsonNull) THEN JsonOk(Null, j + 4)
    ELSE JsonFail

\* the value that starts at or after s[i] (white space skipped)
JsonValue(s, i) == JsonValueAt(s, SkipWs(s, i))

\* a parse result that must reach the end of the text
JsonWhole(s, r) == IF r.ok /\ SkipWs(s, r.pos) > Len(s) THEN r ELSE JsonFail

\* JSON.parse(text): the parsed value, or JsonFail where JSON.parse throws
JSONparse(s) == JsonWhole(s, JsonValue(s, 1))

-----------------------------------------------------------------------------
(* Scalar extractors (neuralseek.ts:69-126) *)

RECURSIVE StringOf(_)
RECURSIVE JoinValues(_)
\* Array.prototype.join(',') as String(array) applies it
JoinValues(a) ==
    IF a = <<>> THEN <<>>
    ELSE (IF Nullish(a[1]) THEN <<>> ELSE StringOf(a[1]))
         \o (IF Len(a) = 1 THEN <<>> ELSE <<",">> \o JoinValues(Tail(a)))

\* String(x)
StringOf(x) ==
    CASE x.t = "string"    -> x.s
      [] x.t = "number"    -> NumberToString(x.r)
      [] x.t = "boolean"   -> IF x.b THEN Str("true") ELSE Str("false")
      [] x.t = "null"      -> Str("null")
      [] x.t = "undefined" -> Str("undefined")
      [] x.t = "array"     -> JoinValues(x.a)
      [] x.t = "object"    -> Str("[object Object]")

RECURSIVE FilterNonEmpty(_)
\* .filter(Boolean) on an array of strings
FilterNonEmpty(a) ==
    IF a = <<>> THEN <<>>
    ELSE IF a[1] = <<>> THEN FilterNonEmpty(Tail(a))
         ELSE <<a[1]>> \o FilterNonEmpty(Tail(a))

\* value.map(String).map((entry) => entry.trim()).filter(Boolean)
CleanEntries(a) == FilterNonEmpty([i \in 1..Len(a) |-> trim(StringOf(a[i]))])

\* length of the separator /\r?\n|•|- / matching at s[i] (0: none)
SeparatorAt(s, i) ==
    IF MatchAt(s, i, <<"\r", "\n">>) THEN 2
    ELSE IF s[i] = "\n" THEN 1
    ELSE IF s[i] = Bullet THEN 1
    ELSE IF MatchAt(s, i, <<"-", " ">>) THEN 2
    ELSE 0

RECURSIVE SplitFrom(_, _, _)
\* String.prototype.split on the separator: cur is the fragment being read
SplitFrom(s, i, cur) ==
    IF i > Len(s) THEN <<cur>>
    ELSE IF SeparatorAt(s, i) > 0
         THEN <<cur>> \o SplitFrom(s, i + SeparatorAt(s, i), <<>>)
         ELSE SplitFrom(s, i + 1, Append(cur, s[i]))

RECURSIVE StripLeadingBullets(_)
\* entry.replace(/^[\s-•]+/, '')
StripLeadingBullets(s) ==
    IF s # <<>> /\ s[1] \in (WhiteSpace \cup {"-", Bullet})
    THEN StripLeadingBullets(Tail(s)) ELSE s

\* .map((entry) => entry.replace(/^[\s-•]+/, '').trim()).filter(Boolean)
StripEntries(parts) ==
    FilterNonEmpty([i \in 1..Len(parts) |-> trim(StripLeadingBullets(parts[i]))])

\* the entries of a JSON array, or of the text split on the separators
\* (parsed is the outcome of JSON.parse(trimmed))
ParsedOrSplit(trimmed, parsed) ==
    IF parsed.ok /\ parsed.val.t = "array" THEN CleanEntries(parsed.val.a)
    ELSE StripEntries(SplitFrom(trimmed, 1, <<>>))

\* parseArrayValue on a string whose trimmed text is trimmed
parseArrayText(trimmed) ==
    IF trimmed = <<>> THEN <<>> ELSE ParsedOrSplit(trimmed, JSONparse(trimmed))

\* parseArrayValue (neuralseek.ts:69): the list of strings a value denotes
parseArrayValue(value) ==
    IF value.t = "array" THEN CleanEntries(value.a)
    ELSE IF value.t = "string" THEN parseArrayText(trim(value.s))
    ELSE <<>>

\* /^\s*\(/.test(value) && /\)\s*$/.test(value)  (neuralseek.ts:100)
wrappedNegative(s) ==
    /\ FirstNonSpace(s) # 0
    /\ s[FirstNonSpace(s)] = "("
    /\ s[LastNonSpace(s)] = ")"

\* wrappedNegative ? -parsed : parsed  (neuralseek.ts:105)
signedValue(s, r) == IF wrappedNegative(s) THEN RatNeg(r) ELSE r

\* the number a string s denotes, parsed being Number(cleaned)
ScaledNumber(s, parsed) ==
    IF parsed = NaN THEN Undefined
    ELSE IF includes(s, <<"%">>)
         THEN NumV(RatDiv(signedValue(s, parsed.r), RatInt(100)))
    ELSE NumV(signedValue(s, parsed.r))

\* parseNumberValue on a string s whose cleaned text is cleaned
parseNumberText(s, cleaned) ==
    IF cleaned = <<>> THEN Undefined
    ELSE ScaledNumber(s, NumberOfString(cleaned))

\* parseNumberValue (neuralseek.ts:96): a number value, or Undefined
parseNumberValue(value) ==
    IF value.t = "number" THEN value
    ELSE IF value.t = "string"
         THEN parseNumberText(value.s,
                trim(RemoveChars(value.s, {",", " ", "$", "%", "(", ")"})))
    ELSE Undefined

\* trimmed ? trimmed : undefined
NonEmptyOrUndefined(s) == IF s # <<>> THEN StrV(s) ELSE Undefined

\* getStringValue (neuralseek.ts:111): a trimmed non-empty string, or Undefined
getStringValue(value) ==
    IF value.t = "string" THEN NonEmptyOrUndefined(trim(value.s)) ELSE Undefined

\* toDisplayString (neuralseek.ts:114)
toDisplayString(value) ==
    IF value.t = "number" THEN StrV(NumberToString(value.r))
    ELSE IF value.t = "string" THEN NonEmptyOrUndefined(trim(value.s))
    ELSE Undefined

-----------------------------------------------------------------------------
(* Variable normalizer (neuralseek.ts:128-185, 288-294) *)

\* the all-lowercase property names every plain object inherits from
\* Object.prototype (the other inherited names hold an upper-case letter, so
\* no lowercased key equals them)
InheritedKeys == {Str("constructor"), Str("__proto__")}

\* the `in` operator on a plain object: own keys and inherited ones
In(k, o) == HasKey(o, k) \/ k \in InheritedKeys

RECURSIVE AddLowerKeys(_, _)
\* the loop of normalizeVariableKeys over Object.entries(input)
AddLowerKeys(normalized, entries) ==
    IF entries = <<>> THEN normalized
    ELSE LET lowerKey == toLowerCase(entries[1].k)
         IN  AddLowerKeys(
                IF ~In(lowerKey, normalized)
                THEN Put(normalized, lowerKey, entries[1].v)
                ELSE normalized,
                Tail(entries))

\* normalizeVariableKeys (neuralseek.ts:128)
normalizeVariableKeys(in) == AddLowerKeys(in, in)

\* normalizeRecord (neuralseek.ts:139): the normalized entries, or Undefined
normalizeRecord(value) ==
    IF ~isRecord(value) THEN Undefined
    ELSE ObjV(normalizeVariableKeys(value.o))

\* optional chaining  rec?.key  on the result of normalizeRecord
GetOpt(rec, k) == IF rec = Undefined THEN Undefined ELSE Get(rec.o, k)

IsFenceChar(c) == c \in {Backtick, "'"}

\* position after an optional (?:\s*json) at s[i], matched case-insensitively
SkipJsonTag(s, i) ==
    IF MatchAt(toLowerCase(s), SkipWs(s, i), Str("json"))
    THEN SkipWs(s, i) + 4 ELSE i

\* the body of a fenced text: from is the position after the opening fence
\* and its optional tag
FenceBody(trimmed, from, closes) ==
    IF closes
    THEN trim(Slice(trimmed, SkipWs(trimmed, from), Len(trimmed) - 3))
    ELSE trim(Slice(trimmed, from, Len(trimmed)))

\* stripFence on the trimmed input
stripFenceTrimmed(trimmed) ==
    IF Len(trimmed) >= 3 /\ \A i \in 1..3 : IsFenceChar(trimmed[i])
    THEN FenceBody(trimmed, SkipJsonTag(trimmed, 4),
                   /\ Len(trimmed) >= 6
                   /\ SubSeq(trimmed, Len(trimmed) - 2, Len(trimmed))
                        = SubSeq(trimmed, 1, 3))
    ELSE trimmed

\* stripFence (neuralseek.ts:144)
stripFence(in) == stripFenceTrimmed(trim(in))

\* isRecord(parsed) ? parsed : undefined, undefined too where JSON.parse throws
RecordOrUndefined(parsed) ==
    IF parsed.ok /\ isRecord(parsed.val) THEN parsed.val ELSE Undefined

parseCandidateTrimmed(trimmed) ==
    IF trimmed = <<>> THEN Undefined ELSE RecordOrUndefined(JSONparse(trimmed))

\* parseCandidate (neuralseek.ts:164): a parsed record value, or Undefined
parseCandidate(text) == parseCandidateTrimmed(trim(text))

\* the candidate between the first "{" and the last "}" (neuralseek.ts:177-182)
BracedCandidate(stripped, firstBrace, lastBrace) ==
    IF firstBrace # 0 /\ lastBrace # 0 /\ lastBrace > firstBrace
    THEN parseCandidate(SubSeq(stripped, firstBrace, lastBrace))
    ELSE Undefined

\* direct when it parsed, else the braced candidate (neuralseek.ts:175-184)
DirectOrBraced(stripped, direct) ==
    IF direct # Undefined THEN direct
    ELSE BracedCandidate(stripped, indexOf(stripped, "{"),
                         lastIndexOf(stripped, "}"))

extractFromStripped(stripped) ==
    IF stripped = <<>> THEN Undefined
    ELSE DirectOrBraced(stripped, parseCandidate(stripped))

\* extractJsonObjectFromAnswer (neuralseek.ts:157): answer is a value
extractJsonObjectFromAnswer(answer) ==
    IF answer.t # "string" \/ answer.s = <<>> THEN Undefined
    ELSE extractFromStripped(stripFence(answer.s))

\* the property key entry.name denotes and the value entry.value, entry being a
\* [name, value] record with a string name, or any other non-null value
EntryKey(entry) ==
    IF "name" \in DOMAIN entry THEN entry.name
    ELSE IF entry.t = "object" THEN StringOf(Get(entry.o, Str("name")))
    ELSE Str("undefined")

EntryValue(entry) ==
    IF "name" \in DOMAIN entry THEN entry.value
    ELSE IF entry.t = "object" THEN Get(entry.o, Str("value"))
    ELSE Undefined

RECURSIVE WriteExpanded(_, _)
\* the loop of extractVariables over response.variablesExpanded
WriteExpanded(combined, expanded) ==
    IF expanded = <<>> THEN combined
    ELSE WriteExpanded(Put(combined, EntryKey(expanded[1]), EntryValue(expanded[1])),
                       Tail(expanded))

\* the own enumerable properties { ...value } copies: those of an object, the
\* indices of an array or a string, none of another value
SpreadSource(value) ==
    IF value.t = "object" THEN value.o
    ELSE IF value.t = "array"
    THEN [i \in 1..Len(value.a) |-> [k |-> NatToString(i - 1), v |-> value.a[i]]]
    ELSE IF value.t = "string"
    THEN [i \in 1..Len(value.s) |-> [k |-> NatToString(i - 1), v |-> StrV(<<value.s[i]>>)]]
    ELSE <<>>

\* the entries for...of visits in response.variablesExpanded ?? []: those of an
\* array, the characters of a string
ExpandedEntries(expanded) ==
    IF expanded.t = "array" THEN expanded.a
    ELSE IF expanded.t = "string"
    THEN [i \in 1..Len(expanded.s) |-> StrV(<<expanded.s[i]>>)]
    ELSE <<>>

\* the loop of extractVariables raises a TypeError: variablesExpanded is
\* neither nullish nor iterable, or one of its entries is null or undefined
\* (neuralseek.ts:290-291)
ExpandedRaises(expanded) ==
    IF Nullish(expanded) THEN FALSE
    ELSE IF expanded.t = "array"
    THEN \E i \in 1..Len(expanded.a) : Nullish(expanded.a[i])
    ELSE expanded.t # "string"

\* the report builders raise a TypeError on response: the body is null
\* (neuralseek.ts:289), or extractVariables raises
ResponseRaises(response) ==
    response = Null \/ ExpandedRaises(response.variablesExpanded)

\* extractVariables (neuralseek.ts:288) on a response it does not raise on;
\* response.variables and response.variablesExpanded are values or Undefined
extractVariables(response) ==
    WriteExpanded(SpreadSource(response.variables),
                  ExpandedEntries(response.variablesExpanded))

-----------------------------------------------------------------------------
(* Field resolver (neuralseek.ts:187-244) *)

RECURSIVE AddUnique(_, _)
\* the inner loop of collectUniqueList: the Set keeps insertion order
AddUnique(seen, entries) ==
    IF entries = <<>> THEN seen
    ELSE AddUnique(
            IF \E i \in 1..Len(seen) : seen[i] = entries[1] THEN seen
            ELSE Append(seen, entries[1]),
            Tail(entries))

RECURSIVE CollectFrom(_, _)
CollectFrom(seen, sources) ==
    IF sources = <<>> THEN seen
    ELSE CollectFrom(AddUnique(seen, parseArrayValue(sources[1])), Tail(sources))

\* collectUniqueList (neuralseek.ts:187)
collectUniqueList(sources) == CollectFrom(<<>>, sources)

RECURSIVE pickFirstNumber(_)
\* the parsed number when there is one, else the search goes on in rest
NumberOrNext(parsed, rest) ==
    IF parsed.t = "number" THEN parsed ELSE pickFirstNumber(rest)

\* pickFirstNumber (neuralseek.ts:199)
pickFirstNumber(values) ==
    IF values = <<>> THEN Undefined
    ELSE NumberOrNext(parseNumberValue(values[1]), Tail(values))

RECURSIVE pickFirstString(_)
\* the string when there is one, else the search goes on in rest
StringOrNext(str, rest) ==
    IF str # Undefined THEN str ELSE pickFirstString(rest)

\* pickFirstString (neuralseek.ts:207)
pickFirstString(values) ==
    IF values = <<>> THEN Undefined
    ELSE StringOrNext(getStringValue(values[1]), Tail(values))

\* the grade table of scoreFromGrade (neuralseek.ts:218), in hundredths
GradeTable ==
    << <<Str("A+"), 95>>, <<Str("A"), 90>>, <<Str("A-"), 87>>,
       <<Str("B+"), 82>>, <<Str("B"), 76>>, <<Str("B-"), 72>>,
       <<Str("C+"), 66>>, <<Str("C"), 58>>, <<Str("C-"), 52>>,
       <<Str("D+"), 46>>, <<Str("D"), 40>>, <<Str("D-"), 35>>,
       <<Str("E"), 30>>, <<Str("F"), 20>> >>

\* table[normalized] as a number value, or Undefined
GradeLookup(table, normalized) ==
    IF \E i \in 1..Len(table) : table[i][1] = normalized
    THEN NumV(Rat(table[CHOOSE i \in 1..Len(table) : table[i][1] = normalized][2],
                  100))
    ELSE Undefined

\* scoreFromGrade (neuralseek.ts:215): grade is a string value or Undefined
scoreFromGrade(grade) ==
    IF grade = Undefined \/ grade.s = <<>> THEN Undefined
    ELSE GradeLookup(GradeTable, toUpperCase(trim(grade.s)))

\* the status of an upper-cased grade, by its first letter
statusFromNormalized(normalized) ==
    IF startsWith(normalized, Str("A")) THEN StrV(Str("Strong"))
    ELSE IF startsWith(normalized, Str("B")) THEN StrV(Str("Stable"))
    ELSE IF startsWith(normalized, Str("C")) THEN StrV(Str("Watch"))
    ELSE StrV(Str("At Risk"))

\* statusFromGrade comparing the whole grade instead of its first letter
statusFromGrade_exact(grade) ==
    IF grade = Undefined \/ grade.s = <<>> THEN Undefined
    ELSE LET normalized == toUpperCase(trim(grade.s))
         IN  IF normalized = Str("A") THEN StrV(Str("Strong"))
             ELSE IF normalized = Str("B") THEN StrV(Str("Stable"))
             ELSE IF normalized = Str("C") THEN StrV(Str("Watch"))
             ELSE StrV(Str("At Risk"))

\* statusFromGrade (neuralseek.ts:237)
statusFromGrade(grade) ==
    IF grade = Undefined \/ grade.s = <<>> THEN Undefined
    ELSE statusFromNormalized(toUpperCase(trim(grade.s)))

-----------------------------------------------------------------------------
(* Agent report builder: financial health (neuralseek.ts:394-531) *)

\* deriveHealthStatus with a mistyped last label
deriveHealthStatus_label(score, fallback) ==
    IF fallback.t = "string" /\ fallback.s # <<>> THEN fallback.s
    ELSE IF score.t # "number" THEN Str("Unknown")
    ELSE IF RatGE(score.r, Rat(75, 100)) THEN Str("Strong")
    ELSE IF RatGE(score.r, Rat(55, 100)) THEN Str("Stable")
    ELSE IF RatGE(score.r, Rat(35, 100)) THEN Str("Watch")
    ELSE Str("Risk")

\* deriveHealthStatus (neuralseek.ts:402): score and fallback are values
deriveHealthStatus(score, fallback) ==
    IF fallback.t = "string" /\ fallback.s # <<>> THEN fallback.s
    ELSE IF score.t # "number" THEN Str("Unknown")
    ELSE IF RatGE(score.r, Rat(75, 100)) THEN Str("Strong")
    ELSE IF RatGE(score.r, Rat(55, 100)) THEN Str("Stable")
    ELSE IF RatGE(score.r, Rat(35, 100)) THEN Str("Watch")
    ELSE Str("At Risk")

\* the merged, normalized variable table of runFinancialHealthAgent
\* (neuralseek.ts:419-422)
MergeVariables(explicit, fromAnswer) ==
    Spread(Spread(<<>>, explicit),
           IF Nullish(fromAnswer) THEN <<>> ELSE fromAnswer.o)

FinancialVariables(response) ==
    normalizeVariableKeys(
        MergeVariables(extractVariables(response),
                       extractJsonObjectFromAnswer(response.answer)))

\* value || fallback  for string-or-undefined operands
OrElse(a, b) == IF a.t = "string" /\ a.s # <<>> THEN a ELSE b

\* `${prefix}${value}` when value is present, else undefined
Labelled(prefix, value) ==
    IF value.t = "string" /\ value.s # <<>> THEN StrV(prefix \o value.s)
    ELSE Undefined

\* the report assembled from the resolved fields (neuralseek.ts:450-530)
ReportFromScore(in, response, variables, keyRatios, optionalInsights, futurePlan, score, fallbackStatus) ==
    LET V(k) == Get(variables, Str(k))
        K(k) == toDisplayString(GetOpt(keyRatios, Str(k)))
        strengths ==
            collectUniqueList(<<V("strengths"), V("highlights"), V("positives"),
                                GetOpt(keyRatios, Str("strengths")),
                                GetOpt(optionalInsights, Str("strengths"))>>)
        risks ==
            collectUniqueList(<<V("risks"), V("riskalerts"), V("concerns"),
                                V("weaknesses"),
                                GetOpt(optionalInsights, Str("financialredflags")),
                                GetOpt(optionalInsights, Str("redflags"))>>)
        recommendationSources ==
            <<V("recommendations"), V("improvementactions"), V("nextsteps"),
              GetOpt(optionalInsights, Str("recommendations"))>>
            \o (IF futurePlan # Undefined
                THEN <<Get(futurePlan.o, Str("shorttermgoals")),
                       Get(futurePlan.o, Str("mediumtermgoals")),
                       Get(futurePlan.o, Str("longtermgoals"))>>
                ELSE <<>>)
        recommendations == collectUniqueList(recommendationSources)
        liquidityFromRatios == Coalesce(K("currentratio"), K("quickratio"))
        profitabilityFromRatios ==
            Coalesce(K("netprofitmargin"),
            Coalesce(K("operatingmargin"), K("ebitdamargin")))
        runwayFromRatios ==
            Coalesce(K("freecashflow"),
                     toDisplayString(GetOpt(optionalInsights, Str("runwaysignal"))))
    IN  [ companyName     |-> in.companyName,
          reportingPeriod |-> in.reportingPeriod,
          summary         |->
              Coalesce(pickFirstString(<<V("healthSummary"), V("healthsummary"),
                                         V("summary"), V("overview"), V("analysis"),
                                         response.answer>>),
                       StrV(Str("NeuralSeek did not return a summary."))).s,
          status          |-> deriveHealthStatus(score, fallbackStatus),
          score           |-> IF score.t = "number" THEN score.r ELSE RatInt(0),
          strengths       |-> strengths,
          risks           |-> risks,
          recommendations |-> recommendations,
          liquiditySignal |->
              OrElse(getStringValue(Coalesce(V("liquiditySignal"),
                                    Coalesce(V("liquidity"), V("cash")))),
                     Labelled(Str("Current ratio "), liquidityFromRatios)),
          profitabilitySignal |->
              OrElse(getStringValue(Coalesce(V("profitabilitySignal"),
                                    Coalesce(V("profitability"), V("marginTrend")))),
                     Labelled(Str("Profitability "), profitabilityFromRatios)),
          runwaySignal |->
              OrElse(getStringValue(Coalesce(V("runwaySignal"),
                                    Coalesce(V("cashRunway"), V("burn")))),
                     Labelled(Str("Free cash flow "), runwayFromRatios)),
          rawAnswer |-> response.answer ]

\* score and fallbackStatus resolved from the grade (neuralseek.ts:430-439,
\* 480-496)
ReportFromGrade(in, response, variables, keyRatios, optionalInsights, futurePlan, grade) ==
    LET V(k) == Get(variables, Str(k))
    IN  ReportFromScore(in, response, variables, keyRatios, optionalInsights,
            futurePlan,
            Coalesce(pickFirstNumber(<<V("healthScore"), V("overallHealthScore"),
                                       V("healthscore"), V("overallhealthscore"),
                                       V("score")>>),
                     scoreFromGrade(grade)),
            Coalesce(pickFirstString(<<V("healthstatus"), V("status"),
                                       V("financialhealth")>>),
                     statusFromGrade(grade)))

\* futurePlan and grade resolved (neuralseek.ts:426-430)
ReportFromInsights(in, response, variables, keyRatios, optionalInsights) ==
    ReportFromGrade(in, response, variables, keyRatios, optionalInsights,
        normalizeRecord(Coalesce(GetOpt(optionalInsights, Str("futureplan")),
                                 Get(variables, Str("futureplan")))),
        pickFirstString(<<Get(variables, Str("healthgrade")),
                          Get(variables, Str("grade"))>>))

\* keyRatios and optionalInsights resolved (neuralseek.ts:424-425)
ReportFromVariables(in, response, variables) ==
    ReportFromInsights(in, response, variables,
        normalizeRecord(Get(variables, Str("keyratios"))),
        normalizeRecord(Coalesce(Get(variables, Str("optionalinsights")),
                                 Get(variables, Str("insights")))))

\* the body of runFinancialHealthAgent after callMaistro has returned
\* (neuralseek.ts:419-530)
FinancialReportOf(in, response) ==
    ReportFromVariables(in, response, FinancialVariables(response))

-----------------------------------------------------------------------------
(* Sentiment (neuralseek.ts:246-286) *)

\* normalizeSentimentLabel (neuralseek.ts:246)
normalizeSentimentLabel(s) ==
    LET lower == toLowerCase(s)
    IN  IF includes(lower, Str("positive")) THEN Str("Positive")
        ELSE IF includes(lower, Str("negative")) THEN Str("Negative")
        ELSE IF includes(lower, Str("neutral")) THEN Str("Neutral")
        ELSE Str("Neutral")

\* defaultSentimentScore (neuralseek.ts:254)
defaultSentimentScore(label) ==
    IF label = Str("Positive") THEN Rat(6, 10)
    ELSE IF label = Str("Negative") THEN Rat(-6, 10)
    ELSE RatInt(0)

\* index of the first digit of a string that holds one
FirstDigit(s) ==
    CHOOSE i \in 1..Len(s) : IsDigit(s[i]) /\ \A j \in 1..(i-1) : ~IsDigit(s[j])

\* the position after \d+(?:\.\d+)? when its integer digits end before s[k]
NumeralEnd(s, k) ==
    IF k <= Len(s) /\ s[k] = "." /\ DigitRun(s, k + 1) > 0
    THEN k + 1 + DigitRun(s, k + 1)
    ELSE k

\* the match of /-?\d+(?:\.\d+)?/ whose first digit is s[d]
NumberMatchAt(s, d) ==
    StrV(SubSeq(s, IF d > 1 /\ s[d - 1] = "-" THEN d - 1 ELSE d,
                NumeralEnd(s, d + DigitRun(s, d)) - 1))

\* value.match(/-?\d+(?:\.\d+)?/): the first match as a string value, or Undefined
FirstNumberMatch(s) ==
    IF ~\E i \in 1..Len(s) : IsDigit(s[i]) THEN Undefined
    ELSE NumberMatchAt(s, FirstDigit(s))

\* { label, score: given ?? defaultSentimentScore(label) }
SentimentOf(label, given) ==
    [label |-> label,
     score |-> IF Nullish(given) THEN defaultSentimentScore(label) ELSE given.r]

\* Number(scoreMatch[0]) when the text held a number
MatchedNumber(scoreMatch) ==
    IF scoreMatch = Undefined THEN Undefined ELSE NumberOfString(scoreMatch.s)

\* parseSentimentValue (neuralseek.ts:260)
parseSentimentValue(value) ==
    IF value.t = "object" /\ Get(value.o, Str("label")).t = "string"
    THEN SentimentOf(normalizeSentimentLabel(Get(value.o, Str("label")).s),
                     parseNumberValue(Get(value.o, Str("score"))))
    ELSE IF value.t = "string"
    THEN SentimentOf(normalizeSentimentLabel(value.s),
                     MatchedNumber(FirstNumberMatch(value.s)))
    ELSE [label |-> Str("Neutral"), score |-> RatInt(0)]

-----------------------------------------------------------------------------
(* Agent report builder: call notes (neuralseek.ts:341-392) *)

\* parsed.length ? parsed : undefined
NonEmptyArray(parsed) == IF Len(parsed) # 0 THEN ArrV(parsed) ELSE Undefined

\* normalizeArray (neuralseek.ts:365): a non-empty list as an array value of
\* strings, or Undefined
normalizeArray(value) == NonEmptyArray(parseArrayValue(value))

\* the result assembled from the variable table (neuralseek.ts:370-391)
CallResultFrom(response, variables) ==
    LET V(k) == Get(variables, Str(k))
    IN  [ summary |->
              getStringValue(Coalesce(V("summary"),
                             Coalesce(V("callSummary"), response.answer))),
          nextSteps |->
              normalizeArray(Coalesce(V("nextSteps"),
                             Coalesce(V("nextsteps"), V("followUps")))),
          actionItems |->
              normalizeArray(Coalesce(V("actionItems"),
                             Coalesce(V("actionitems"), V("nextSteps")))),
          objections |->
              normalizeArray(Coalesce(V("objections"),
                             Coalesce(V("concerns"), V("risks")))),
          tags |-> normalizeArray(Coalesce(V("tags"), V("labels"))),
          sentiment |->
              parseSentimentValue(Coalesce(V("sentiment"), V("sentimentAnalysis"))),
          durationMinutes |->
              parseNumberValue(Coalesce(V("durationMinutes"),
                                        V("estimatedDurationMinutes"))) ]

\* the body of runCallNotesAgent after callMaistro has returned
\* (neuralseek.ts:363-391)
CallResultOf(response) == CallResultFrom(response, extractVariables(response))

-----------------------------------------------------------------------------
(* Heuristic financial analyzer: text scanning (neuralseek.ts:533-607) *)

\* the euro and pound signs, named since the module is ASCII
Euro  == "U+20AC"
Pound == "U+00A3"

\* the k-th newline position of s (1-based)
NewlineAt(s, k) ==
    CHOOSE i \in 1..Len(s) :
        /\ s[i] = "\n"
        /\ Cardinality({j \in 1..(i - 1) : s[j] = "\n"}) = k - 1

\* input.split(/\r?\n/): the pieces between newlines, a carriage return
\* directly before a newline belonging to the separator
SplitNewlines(s) ==
    LET n       == Cardinality({i \in 1..Len(s) : s[i] = "\n"})
        start(k) == IF k = 1 THEN 1 ELSE NewlineAt(s, k - 1) + 1
        stop(k)  == IF k = n + 1 THEN Len(s)
                    ELSE LET b == NewlineAt(s, k)
                         IN  IF b > 1 /\ s[b - 1] = "\r" THEN b - 2 ELSE b - 1
    IN  [k \in 1..(n + 1) |-> SubSeq(s, start(k), stop(k))]

\* splitLines (neuralseek.ts:533)
splitLines(in) ==
    LET parts == SplitNewlines(in)
    IN  FilterNonEmpty([i \in 1..Len(parts) |-> trim(parts[i])])

\* the regex class \w
IsWordChar(c) ==
    \/ IsDigit(c)
    \/ c = "_"
    \/ \E j \in 1..26 : UpperLetters[j] = c \/ LowerLetters[j] = c

\* /\bw\b/.test(s) for a word w of word characters
HasWord(s, w) ==
    \E i \in 1..Len(s) :
        /\ MatchAt(s, i, w)
        /\ (i = 1 \/ ~IsWordChar(s[i - 1]))
        /\ (i + Len(w) > Len(s) \/ ~IsWordChar(s[i + Len(w)]))

HasAnyWord(s, ws) == \E w \in ws : HasWord(s, w)

\* the match of /-?\(?\d+(?:\.\d+)?\)?/ that starts at s[from], e being the
\* position after its numeral
AmountMatchTo(s, from, e) ==
    [index |-> from,
     raw   |-> SubSeq(s, from, IF e <= Len(s) /\ s[e] = ")" THEN e ELSE e - 1)]

\* the match whose first digit is s[d]
AmountMatchAt(s, d) ==
    AmountMatchTo(s,
        IF d > 1 /\ s[d - 1] = "("
        THEN (IF d > 2 /\ s[d - 2] = "-" THEN d - 2 ELSE d - 1)
        ELSE IF d > 1 /\ s[d - 1] = "-" THEN d - 1
        ELSE d,
        NumeralEnd(s, d + DigitRun(s, d)))

\* sanitized.match(/-?\(?\d+(?:\.\d+)?\)?/): [index, raw] of the first match
\* (1-based), index 0 when there is none
FirstAmountMatch(s) ==
    IF ~\E i \in 1..Len(s) : IsDigit(s[i]) THEN [index |-> 0, raw |-> <<>>]
    ELSE AmountMatchAt(s, FirstDigit(s))

\* negate ? -r : r
NegatedIf(negate, r) == IF negate THEN RatNeg(r) ELSE r

\* value = Number(raw.replace(/[()]/g, '')), negated when raw holds both
\* parentheses (neuralseek.ts:545-546)
AmountValue(raw0) ==
    NegatedIf(includes(raw0, <<"(">>) /\ includes(raw0, <<")">>),
              NumberOfString(RemoveChars(raw0, {"(", ")"})).r)

\* the unit words of the context applied to value (neuralseek.ts:553-561)
ScaleByContext(value, context) ==
    IF HasAnyWord(context, {Str("billion"), Str("bn")})
    THEN NumV(RatMul(value, RatInt(1000000000)))
    ELSE IF HasAnyWord(context, {Str("million"), Str("mm"), Str("mn"),
                                 Str("millions")})
    THEN NumV(RatMul(value, RatInt(1000000)))
    ELSE IF HasAnyWord(context, {Str("thousand"), Str("k"), Str("thousands")})
    THEN NumV(RatMul(value, RatInt(1000)))
    ELSE NumV(value)

\* the number of a sanitized line whose first amount is match
NumberFromMatch(sanitized, match) ==
    IF match.index = 0 THEN Undefined
    ELSE ScaleByContext(
            AmountValue(match.raw),
            toLowerCase(Slice(sanitized, 1, match.index - 1))
            \o <<" ">>
            \o toLowerCase(Slice(sanitized, match.index + Len(match.raw),
                                 Len(sanitized))))

\* extractNumberFromLine on the sanitized line
NumberFromSanitized(sanitized) ==
    NumberFromMatch(sanitized, FirstAmountMatch(sanitized))

\* extractNumberFromLine (neuralseek.ts:539): a number value, or Undefined
extractNumberFromLine(line) ==
    NumberFromSanitized(RemoveChars(line, {"$", Euro, Pound, ","}))

RECURSIVE FindInLines(_, _)

\* the search ending at the first line that names a keyword, number or not
ValueOrNext_firstMention(mentions, value, rest, keywords) ==
    IF mentions THEN value ELSE FindInLines(rest, keywords)

\* a line's value when the line names a keyword and holds a number, else the
\* search continues in rest
ValueOrNext(mentions, value, rest, keywords) ==
    IF mentions /\ value.t = "number" THEN value
    ELSE FindInLines(rest, keywords)

\* keywords.some((keyword) => lower.includes(keyword))
IncludesAny(lower, keywords) ==
    \E i \in 1..Len(keywords) : includes(lower, keywords[i])

\* the loop of findMetricValue over the lines
FindInLines(lines, keywords) ==
    IF lines = <<>> THEN Undefined
    ELSE ValueOrNext(IncludesAny(toLowerCase(lines[1]), keywords),
                     extractNumberFromLine(lines[1]), Tail(lines), keywords)

\* findMetricValue (neuralseek.ts:564)
findMetricValue(text, keywords) == FindInLines(splitLines(text), keywords)

\* clampScore (neuralseek.ts:578)
clampScore(value) == RatMin(Rat(98, 100), RatMax(Rat(5, 100), value))

RECURSIVE PadLeft(_, _)
PadLeft(digits, width) ==
    IF Len(digits) >= width THEN digits ELSE PadLeft(<<"0">> \o digits, width)

\* digits with a decimal point before its last precision characters
PointBefore(digits, precision) ==
    SubSeq(digits, 1, Len(digits) - precision)
    \o (IF precision = 0 THEN <<>>
        ELSE <<".">> \o SubSeq(digits, Len(digits) - precision + 1, Len(digits)))

\* the magnitude a in units of 10^-precision, rounded
RoundedDigits(a, precision) ==
    PadLeft(NatToString((2 * a.n * Pow10(precision) + a.d) \div (2 * a.d)),
            precision + 1)

\* Number.prototype.toFixed(precision) of the exact value x (ties round up in
\* magnitude)
toFixed(x, precision) ==
    (IF x.n < 0 THEN <<"-">> ELSE <<>>)
    \o PointBefore(RoundedDigits(RatAbs(x), precision), precision)

\* [divisor, suffix] for a magnitude whose integer part is whole
DivisorAndSuffix(whole) ==
    IF whole >= 1000000000 THEN <<1000000000, Str("B")>>
    ELSE IF whole >= 1000000 THEN <<1000000, Str("M")>>
    ELSE IF whole >= 1000 THEN <<1000, Str("K")>>
    ELSE <<1, <<>>>>

\* scaled.toFixed(precision) with precision chosen from scaled
FormattedScaled(scaled) ==
    toFixed(scaled, IF RatGE(scaled, RatInt(100)) THEN 0
                    ELSE IF RatGE(scaled, RatInt(10)) THEN 1 ELSE 2)

\* `${formatted}${suffix}` for the [divisor, suffix] big
FormattedWith(abs, big) == FormattedScaled(RatDiv(abs, RatInt(big[1]))) \o big[2]

\* abs >= K is decided on the integer part of abs
FormattedAbs(abs) == FormattedWith(abs, DivisorAndSuffix(abs.n \div abs.d))

\* formatCurrency (neuralseek.ts:580)
formatCurrency(value) ==
    (IF value.n < 0 THEN <<"-">> ELSE <<>>) \o <<"$">> \o FormattedAbs(RatAbs(value))

\* JS truthiness of a number-or-undefined value
Truthy(x) == x.t = "number" /\ x.r.n # 0

IsNum(x) == x.t = "number"

\* estimateRunwayMonths (neuralseek.ts:604)
estimateRunwayMonths(cash, monthlyBurn) ==
    IF ~Truthy(cash) \/ ~Truthy(monthlyBurn) \/ RatLE(monthlyBurn.r, RatInt(0))
    THEN Undefined
    ELSE NumV(RatDiv(cash.r, monthlyBurn.r))

-----------------------------------------------------------------------------
(* Heuristic financial analyzer: the report (neuralseek.ts:609-829) *)

\* monthlyBurn (neuralseek.ts:655-662)
MonthlyBurn(operatingCashFlow, operatingExpenses, freeCashFlow) ==
    IF Truthy(operatingCashFlow) /\ operatingCashFlow.r.n < 0
    THEN NumV(RatDiv(RatAbs(operatingCashFlow.r), RatInt(3)))
    ELSE IF Truthy(operatingExpenses)
    THEN NumV(RatMax(RatDiv(operatingExpenses.r, RatInt(12)), RatInt(1)))
    ELSE IF Truthy(freeCashFlow) /\ freeCashFlow.r.n < 0
    THEN NumV(RatDiv(RatAbs(freeCashFlow.r), RatInt(3)))
    ELSE Undefined

\* the metrics with runwayMonths added (neuralseek.ts:664)
WithRunway(m, monthlyBurn) ==
    [ revenue |-> m.revenue, netIncome |-> m.netIncome,
      operatingExpenses |-> m.operatingExpenses, cash |-> m.cash,
      currentAssets |-> m.currentAssets,
      currentLiabilities |-> m.currentLiabilities, totalDebt |-> m.totalDebt,
      operatingCashFlow |-> m.operatingCashFlow, freeCashFlow |-> m.freeCashFlow,
      liquidityRatio |-> m.liquidityRatio, netMargin |-> m.netMargin,
      monthlyBurn |-> monthlyBurn,
      runwayMonths |-> estimateRunwayMonths(m.cash, monthlyBurn) ]

\* the metrics derived from the scanned ones (neuralseek.ts:646-664)
WithDerived(m) ==
    WithRunway(
        [ revenue |-> m.revenue, netIncome |-> m.netIncome,
          operatingExpenses |-> m.operatingExpenses, cash |-> m.cash,
          currentAssets |-> m.currentAssets,
          currentLiabilities |-> m.currentLiabilities, totalDebt |-> m.totalDebt,
          operatingCashFlow |-> m.operatingCashFlow,
          freeCashFlow |-> m.freeCashFlow,
          liquidityRatio |->
              IF Truthy(m.currentAssets) /\ Truthy(m.currentLiabilities)
              THEN NumV(RatDiv(m.currentAssets.r, m.currentLiabilities.r))
              ELSE Undefined,
          netMargin |->
              IF Truthy(m.revenue) /\ IsNum(m.netIncome)
              THEN NumV(RatDiv(m.netIncome.r, m.revenue.r))
              ELSE Undefined ],
        MonthlyBurn(m.operatingCashFlow, m.operatingExpenses, m.freeCashFlow))

\* the metrics scanned from the three statements (neuralseek.ts:612-644), each
\* a number value or Undefined
ScannedMetrics(balance, income, cashflow) ==
    [ revenue |->
          findMetricValue(income, <<Str("total revenue"), Str("revenue"),
                                    Str("net sales")>>),
      netIncome |->
          findMetricValue(income, <<Str("net income"), Str("profit"),
                                    Str("earnings")>>),
      operatingExpenses |->
          findMetricValue(income, <<Str("operating expenses"),
                                    Str("total operating expenses"), Str("opex")>>),
      cash |->
          findMetricValue(balance, <<Str("cash and cash equivalents"),
                                     Str("cash & equivalents"),
                                     Str("cash balance"), Str("cash")>>),
      currentAssets |->
          findMetricValue(balance, <<Str("current assets"),
                                     Str("total current assets")>>),
      currentLiabilities |->
          findMetricValue(balance, <<Str("current liabilities"),
                                     Str("total current liabilities")>>),
      totalDebt |->
          findMetricValue(balance, <<Str("total debt"), Str("long-term debt"),
                                     Str("debt")>>),
      operatingCashFlow |->
          findMetricValue(cashflow, <<Str("operating cash flow"),
                                      Str("cash from operations")>>),
      freeCashFlow |-> findMetricValue(cashflow, <<Str("free cash flow")>>) ]

\* the metrics buildMockFinancialReport derives (neuralseek.ts:612-664)
MockMetrics(in) ==
    WithDerived(ScannedMetrics(in.balanceSheet, in.incomeStatement,
                               in.cashflowStatement))

\* NetIncomeTerm counting a net income of zero as positive
NetIncomeTerm_zeroPositive(m) ==
    IF IsNum(m.netIncome) THEN (IF m.netIncome.r.n >= 0 THEN 15 ELSE -15) ELSE 0

\* the five terms added to 0.5 (neuralseek.ts:668-692), in hundredths
NetIncomeTerm(m) ==
    IF IsNum(m.netIncome) THEN (IF m.netIncome.r.n > 0 THEN 15 ELSE -15) ELSE 0

CashFlowTerm(m) ==
    IF IsNum(m.operatingCashFlow)
    THEN (IF m.operatingCashFlow.r.n > 0 THEN 15 ELSE -15) ELSE 0

LiquidityTerm(m) ==
    IF IsNum(m.liquidityRatio)
    THEN (IF RatGE(m.liquidityRatio.r, Rat(3, 2)) THEN 10
          ELSE IF RatLT(m.liquidityRatio.r, RatInt(1)) THEN -10 ELSE 0)
    ELSE 0

RunwayTerm(m) ==
    IF IsNum(m.runwayMonths)
    THEN (IF RatGE(m.runwayMonths.r, RatInt(12)) THEN 10
          ELSE IF RatLT(m.runwayMonths.r, RatInt(6)) THEN -10 ELSE 0)
    ELSE 0

DebtTerm(m) ==
    IF IsNum(m.cash) /\ IsNum(m.totalDebt)
    THEN (IF RatGT(m.cash.r, m.totalDebt.r) THEN 5 ELSE -5) ELSE 0

\* score (neuralseek.ts:666)
MockScore(m) ==
    clampScore(Rat(50 + NetIncomeTerm(m) + CashFlowTerm(m) + LiquidityTerm(m)
                      + RunwayTerm(m) + DebtTerm(m), 100))

\* `cond ? <<sentence>> : <<>>` : one guarded push
PushIf(cond, sentence) == IF cond THEN <<sentence>> ELSE <<>>

\* OrFallback without the push of the fallback
OrFallback_none(list, sentence) == list

\* a list with its fallback pushed when it is empty
OrFallback(list, sentence) == IF Len(list) = 0 THEN <<sentence>> ELSE list

\* the guarded pushes of strengths (neuralseek.ts:695-710)
StrengthsFired(m) ==
    PushIf(IsNum(m.netIncome) /\ m.netIncome.r.n > 0,
           Str("Net income of ") \o formatCurrency(m.netIncome.r)
           \o Str(" indicates profitability."))
    \o PushIf(IsNum(m.netMargin) /\ RatGT(m.netMargin.r, Rat(15, 100)),
           Str("Net margin of ")
           \o toFixed(RatMul(m.netMargin.r, RatInt(100)), 1)
           \o Str("% shows healthy leverage."))
    \o PushIf(IsNum(m.liquidityRatio) /\ RatGE(m.liquidityRatio.r, Rat(3, 2)),
           Str("Current ratio at ") \o toFixed(m.liquidityRatio.r, 1)
           \o Str("x reflects solid liquidity."))
    \o PushIf(IsNum(m.operatingCashFlow) /\ m.operatingCashFlow.r.n > 0,
           Str("Operations generated ") \o formatCurrency(m.operatingCashFlow.r)
           \o Str(" in cash."))
    \o PushIf(IsNum(m.runwayMonths) /\ RatGE(m.runwayMonths.r, RatInt(12)),
           Str("Cash runway extends roughly ") \o toFixed(m.runwayMonths.r, 0)
           \o Str(" months."))

StrengthsFallback ==
    Str("Statements look complete, enabling quick diagnostics even without AI output.")

\* the guarded pushes of risks (neuralseek.ts:715-733)
RisksFired(m) ==
    PushIf(IsNum(m.netIncome) /\ m.netIncome.r.n < 0,
           Str("Net losses of ") \o formatCurrency(m.netIncome.r)
           \o Str(" are pressuring profitability."))
    \o PushIf(IsNum(m.netMargin) /\ RatLT(m.netMargin.r, Rat(5, 100)),
           Str("Net margin is thin, leaving little buffer for volatility."))
    \o PushIf(IsNum(m.liquidityRatio) /\ RatLT(m.liquidityRatio.r, RatInt(1)),
           Str("Current ratio of ") \o toFixed(m.liquidityRatio.r, 2)
           \o Str("x signals working-capital stress."))
    \o PushIf(IsNum(m.operatingCashFlow) /\ m.operatingCashFlow.r.n < 0,
           Str("Operating cash burn of ") \o formatCurrency(m.operatingCashFlow.r)
           \o Str(" this period."))
    \o PushIf(IsNum(m.runwayMonths) /\ RatLT(m.runwayMonths.r, RatInt(6)),
           Str("Cash runway is only ") \o toFixed(m.runwayMonths.r, 1)
           \o Str(" months at current burn."))
    \o PushIf(IsNum(m.totalDebt) /\ IsNum(m.cash) /\ RatGT(m.totalDebt.r, m.cash.r),
           Str("Debt exceeds cash, creating refinancing exposure."))

RisksFallback == Str("No acute risks detected from the text provided.")

\* the guarded pushes of recommendations (neuralseek.ts:738-757)
RecommendationsFired(m) ==
    PushIf(IsNum(m.netIncome) /\ m.netIncome.r.n < 0,
           Str("Tighten expense controls or improve pricing to return to profitability."))
    \o PushIf(IsNum(m.operatingCashFlow) /\ m.operatingCashFlow.r.n < 0,
           Str("Stabilize working capital to reduce operating cash burn."))
    \o PushIf(IsNum(m.liquidityRatio) /\ RatLT(m.liquidityRatio.r, Rat(12, 10)),
           Str("Build short-term liquidity through credit facilities or slower spend."))
    \o PushIf(IsNum(m.runwayMonths) /\ RatLT(m.runwayMonths.r, RatInt(9)),
           Str("Secure additional capital to extend runway beyond nine months."))
    \o PushIf(IsNum(m.totalDebt) /\ IsNum(m.cash)
              /\ RatGT(m.totalDebt.r, RatMul(m.cash.r, Rat(12, 10))),
           Str("Evaluate refinancing or debt reduction options to lighten leverage."))

RecommendationsFallback ==
    Str("Maintain current plan; monitor cash trends monthly to stay ahead of shifts.")

RECURSIVE JoinWithSpace(_)
\* summaryParts.join(' ')
JoinWithSpace(parts) ==
    IF parts = <<>> THEN <<>>
    ELSE IF Len(parts) = 1 THEN parts[1]
    ELSE parts[1] \o <<" ">> \o JoinWithSpace(Tail(parts))

\* CompanyOrDefault without the default
CompanyOrDefault_asGiven(in) == in.companyName

\* input.companyName || 'The company'
CompanyOrDefault(in) ==
    IF in.companyName # <<>> THEN in.companyName ELSE Str("The company")

\* summaryParts (neuralseek.ts:762-788)
MockSummaryParts(in, m) ==
    (IF IsNum(m.netIncome)
     THEN << CompanyOrDefault(in) \o Str(" posted ")
             \o (IF m.netIncome.r.n >= 0 THEN Str("net income") ELSE Str("a loss"))
             \o Str(" of ") \o formatCurrency(m.netIncome.r)
             \o (IF Truthy(m.revenue)
                 THEN Str(" on ") \o formatCurrency(m.revenue.r) \o Str(" of revenue")
                 ELSE <<>>)
             \o Str(".") >>
     ELSE << CompanyOrDefault(in)
             \o Str(" financials were analyzed with local heuristics.") >>)
    \o PushIf(IsNum(m.liquidityRatio),
              Str("Current ratio sits near ") \o toFixed(m.liquidityRatio.r, 1)
              \o Str("x."))
    \o PushIf(IsNum(m.operatingCashFlow),
              IF m.operatingCashFlow.r.n >= 0
              THEN Str("Operations generated positive cash.")
              ELSE Str("Operations consumed cash this period."))
    \o PushIf(IsNum(m.runwayMonths),
              Str("Estimated runway ~") \o toFixed(m.runwayMonths.r, 0)
              \o Str(" months."))

\* the report of the metrics m and their score (neuralseek.ts:791-829)
MockReportOf(in, m, score) ==
        [ companyName     |-> in.companyName,
          reportingPeriod |-> in.reportingPeriod,
          summary         |-> JoinWithSpace(MockSummaryParts(in, m)),
          status          |-> deriveHealthStatus(NumV(score), Undefined),
          score           |-> score,
          strengths       |-> OrFallback(StrengthsFired(m), StrengthsFallback),
          risks           |-> OrFallback(RisksFired(m), RisksFallback),
          recommendations |->
              OrFallback(RecommendationsFired(m), RecommendationsFallback),
          liquiditySignal |->
              IF IsNum(m.liquidityRatio)
              THEN (IF RatGE(m.liquidityRatio.r, RatInt(1))
                    THEN StrV(Str("Current ratio ~")
                              \o toFixed(m.liquidityRatio.r, 2) \o Str("x"))
                    ELSE StrV(Str("Current ratio under 1.0 (")
                              \o toFixed(m.liquidityRatio.r, 2) \o Str("x)")))
              ELSE IF IsNum(m.cash)
              THEN StrV(Str("Cash balance around ") \o formatCurrency(m.cash.r))
              ELSE Undefined,
          profitabilitySignal |->
              IF IsNum(m.netIncome)
              THEN (IF Truthy(m.netMargin)
                    THEN StrV(Str("Net margin ")
                              \o toFixed(RatMul(m.netMargin.r, RatInt(100)), 1)
                              \o Str("%"))
                    ELSE StrV(Str("Net ")
                              \o (IF m.netIncome.r.n >= 0 THEN Str("income")
                                  ELSE Str("loss"))
                              \o Str(" ") \o formatCurrency(m.netIncome.r)))
              ELSE Undefined,
          runwaySignal |->
              IF IsNum(m.runwayMonths)
              THEN (IF RatGE(m.runwayMonths.r, RatInt(12))
                    THEN StrV(Str("~") \o toFixed(m.runwayMonths.r, 0)
                              \o Str(" months runway"))
                    ELSE StrV(Str("Runway near ") \o toFixed(m.runwayMonths.r, 0)
                              \o Str(" months")))
              ELSE Undefined,
          rawAnswer |-> StrV(Str("Generated locally from pasted statements.")) ]

\* the report of the metrics m (neuralseek.ts:666-829)
MockReportFrom(in, m) == MockReportOf(in, m, MockScore(m))

\* buildMockFinancialReport (neuralseek.ts:609)
buildMockFinancialReport(in) == MockReportFrom(in, MockMetrics(in))

-----------------------------------------------------------------------------
(* Inputs the model draws *)

\* a string value / an object entry written with source literals
SV(lit) == StrV(Str(lit))
KV(lit, value) == [k |-> Str(lit), v |-> value]

\* the most entries drawn for response.variables
MaxVars == 2

\* entries an agent may return in response.variables
FinEntryPool ==
    << KV("status", SV("Healthy")),
       KV("healthstatus", SV(" Watch ")),
       KV("financialhealth", SV("   ")),
       KV("grade", SV("b+")),
       KV("healthgrade", SV("A")),
       KV("grade", SV("Z")),
       KV("score", SV("0.8")),
       KV("healthScore", NumV(RatInt(85))),
       KV("Score", SV("40%")),
       KV("score", SV("(12%)")),
       KV("score", SV("n/a")),
       KV("overallHealthScore", NumV(Rat(55, 100))),
       KV("healthscore", SV("0.34")),
       KV("strengths", ArrV(<<SV("x"), SV(" x "), SV("y")>>)),
       KV("risks", SV("- a\n- b")),
       KV("recommendations", SV("[]")),
       KV("keyratios", ObjV(<<KV("CurrentRatio", NumV(Rat(3, 2))),
                              KV("strengths", SV("z"))>>)),
       KV("insights", ObjV(<<KV("redFlags", SV("r")),
                             KV("futurePlan",
                                ObjV(<<KV("shortTermGoals",
                                          ArrV(<<SV("g")>>))>>))>>)) >>

RECURSIVE IncreasingSeqs(_, _)
\* the strictly increasing index sequences over 1..n of length at most k
IncreasingSeqs(n, k) ==
    IF k = 0 THEN {<<>>}
    ELSE LET shorter == IncreasingSeqs(n, k - 1)
         IN  shorter \cup
             {x \in {Append(s, i) : s \in {t \in shorter : Len(t) = k - 1},
                                    i \in 1..n} :
                 k = 1 \/ x[k - 1] < x[k]}

DistinctKeys(o) == \A i, j \in 1..Len(o) : o[i].k = o[j].k => i = j

\* absent, or an object of up to MaxVars entries of pool with distinct keys,
\* in pool order
ObjectsFrom(pool) ==
    {Undefined} \cup
    {ObjV(o) : o \in
        {e \in {[i \in 1..Len(s) |-> pool[s[i]]] :
                    s \in IncreasingSeqs(Len(pool), MaxVars)} :
            DistinctKeys(e)}}

\* response.variables
FinVariables == ObjectsFrom(FinEntryPool)

\* response.variablesExpanded
FinExpanded ==
    { Undefined,
      ArrV(<<[name |-> Str("score"), value |-> SV("0.6")]>>),
      ArrV(<<[name |-> Str("Status"), value |-> SV("Stable")],
             [name |-> Str("Status"), value |-> SV("Strong")]>>) }

\* response.answer
FinAnswers ==
    { Undefined,
      SV("All good."),
      SV("{\"score\": 0.2, \"status\": \"At Risk\"}"),
      SV("'''json\n{\"grade\": \"C-\", \"Strengths\": [\"s\"]}\n'''"),
      SV("Result: {\"healthScore\": \"55%\"} done"),
      SV("[1, 2]") }

\* response bodies of another shape than NeuralSeekRawResponse
MalformedResponses ==
    { Null,
      [variables |-> SV("ab"), variablesExpanded |-> SV("cd"), answer |-> Null],
      [variables |-> Undefined, variablesExpanded |-> NumV(RatInt(5)),
       answer |-> Undefined],
      [variables |-> Undefined,
       variablesExpanded |->
           ArrV(<<[name |-> Str("score"), value |-> SV("0.6")], Null>>),
       answer |-> Undefined],
      [variables |-> ArrV(<<SV("x")>>),
       variablesExpanded |->
           ArrV(<<NumV(RatInt(1)), ObjV(<<KV("name", NumV(RatInt(7))),
                                          KV("value", BoolV(TRUE))>>)>>),
       answer |-> NumV(RatInt(3))] }

FinResponses ==
    [variables : FinVariables, variablesExpanded : FinExpanded, answer : FinAnswers]
    \cup MalformedResponses

FinInputs ==
    { [companyName |-> Str("Acme"), reportingPeriod |-> Str("Q1"),
       balanceSheet |-> Str("Cash: 120"), incomeStatement |-> Str("Net income: 0"),
       cashflowStatement |-> Str("Operating cash flow: 60")] }

\* entries a call-notes agent may return in response.variables
CallEntryPool ==
    << KV("Summary", SV("ok")),
       KV("summary", SV("   ")),
       KV("callSummary", SV(" cs ")),
       KV("nextSteps", ArrV(<<SV("a"), SV(" a"), SV("b")>>)),
       KV("nextsteps", SV("- a\n- b\n- a")),
       KV("followUps", SV("")),
       KV("actionItems", NumV(RatInt(5))),
       KV("objections", SV("[\"o\", \"o\"]")),
       KV("risks", ArrV(<<SV("r")>>)),
       KV("tags", ArrV(<<SV("  "), SV("")>>)),
       KV("labels", SV("t")),
       KV("sentiment", SV("mostly positive 0.9")),
       KV("sentimentAnalysis", ObjV(<<KV("label", SV("Negative"))>>)),
       KV("sentiment", SV("Positive 85")),
       KV("sentiment", ObjV(<<KV("label", SV("very negative")),
                              KV("score", NumV(RatInt(-3)))>>)),
       KV("sentiment", NumV(RatInt(1))),
       KV("durationMinutes", SV("30")) >>

CallVariables == ObjectsFrom(CallEntryPool)

CallExpanded ==
    { Undefined,
      ArrV(<<[name |-> Str("Summary"), value |-> SV("ok")]>>),
      ArrV(<<[name |-> Str("tags"), value |-> SV("x\nx")]>>) }

CallAnswers == { Undefined, SV("All good.") }

CallResponses ==
    [variables : CallVariables, variablesExpanded : CallExpanded,
     answer : CallAnswers]
    \cup MalformedResponses

\* the TranscriptSubmission handed to runCallNotesAgent
CallSubmissions ==
    { [transcript |-> Str("All good."), owner |-> Str("Acme")] }

\* the most lines drawn for one statement text
MaxLines == 3

BalanceLines ==
    << Str("Cash and cash equivalents"), Str("Cash: 120"), Str("Cash balance 30"), Str("Current Assets: 500"),
       Str("Total current liabilities: 300"), Str("Current liabilities: 1,000"),
       Str("Total debt: 100") >>

IncomeLines ==
    << Str("Total revenue: 200"), Str("Net Income: $2.5 thousand"),
       Str("Net income: (40)"), Str("Net income: 0") >>

CashflowLines ==
    << Str("Operating cash flow: 60"), Str("Cash from operations: (90)"),
       Str("Free cash flow: (15)") >>

RECURSIVE JoinLines(_)
JoinLines(lines) ==
    IF lines = <<>> THEN <<>>
    ELSE IF Len(lines) = 1 THEN lines[1]
    ELSE lines[1] \o <<"\n">> \o JoinLines(Tail(lines))

\* the texts of up to MaxLines lines of pool, in pool order
TextsFrom(pool) ==
    {JoinLines([i \in 1..Len(s) |-> pool[s[i]]]) :
        s \in IncreasingSeqs(Len(pool), MaxLines)}

\* the empty text and the one-line texts of pool
ShortTextsFrom(pool) == {<<>>} \cup {pool[i] : i \in 1..Len(pool)}

\* income statements that state operating expenses
ExpenseLines ==
    << Str("Operating expenses: 0"), Str("Total operating expenses: 24,000"),
       Str("Opex: 6") >>

\* the FinancialHealthInput handed to buildMockFinancialReport: a named
\* company with any drawn texts, an unnamed one with short texts, or one
\* stating its operating expenses
MockInputs ==
    [companyName : {Str("Acme")}, reportingPeriod : {Str("Q1")},
     balanceSheet : TextsFrom(BalanceLines),
     incomeStatement : TextsFrom(IncomeLines),
     cashflowStatement : TextsFrom(CashflowLines)]
    \cup
    [companyName : {<<>>}, reportingPeriod : {Str("Q1")},
     balanceSheet : ShortTextsFrom(BalanceLines),
     incomeStatement : ShortTextsFrom(IncomeLines),
     cashflowStatement : ShortTextsFrom(CashflowLines)]
    \cup
    [companyName : {Str("Acme")}, reportingPeriod : {Str("Q1")},
     balanceSheet : {<<>>, Str("Cash: 120"), Str("Cash: 0")},
     incomeStatement : ShortTextsFrom(ExpenseLines),
     cashflowStatement : TextsFrom(CashflowLines)]

\* the most keys drawn for an argument of normalizeVariableKeys
MaxKeys == 3

NormKeys == {Str("Foo"), Str("foo"), Str("FOO"), Str("bar"), Str("Constructor")}
NormValues == {NumV(RatInt(1)), NumV(RatInt(2)), SV("ok")}

\* the objects of up to MaxKeys distinct keys, in every insertion order
NormInputs ==
    {o \in UNION {[1..n -> [k : NormKeys, v : NormValues]] : n \in 0..MaxKeys} :
        DistinctKeys(o)}

-----------------------------------------------------------------------------
(* Agent boundary: settings and callMaistro (neuralseek.ts:54-67, 296-339) *)

\* truthiness of a string | undefined
NonEmptyString(x) == x.t = "string" /\ x.s # <<>>

\* String.prototype.replace(/\/$/, '')
StripTrailingSlash(s) ==
    IF s # <<>> /\ s[Len(s)] = "/" THEN SubSeq(s, 1, Len(s) - 1) ELSE s

\* neuralseek.ts:54
baseUrl ==
    IF env.VITE_NEURALSEEK_BASE_URL = Undefined THEN Undefined
    ELSE StrV(StripTrailingSlash(env.VITE_NEURALSEEK_BASE_URL.s))

\* neuralseek.ts:55-57
callAgentName == env.VITE_NEURALSEEK_AGENT

finAgentName == env.VITE_NEURALSEEK_FIN_AGENT

apiKey == env.VITE_NEURALSEEK_API_KEY

\* neuralseek.ts:61
isBaseConfigured == NonEmptyString(baseUrl) /\ NonEmptyString(apiKey)

\* neuralseek.ts:63
isCallNotesAgentConfigured == isBaseConfigured /\ NonEmptyString(callAgentName)

\* neuralseek.ts:66
isFinancialAgentConfigured == isBaseConfigured /\ NonEmptyString(finAgentName)

\* callMaistro's checks without the one of the agent name
ConfigurationError_baseOnly(agent) ==
    IF ~isBaseConfigured
    THEN StrV(Str("NeuralSeek base URL or API key missing"))
    ELSE Undefined

\* the message of the Error callMaistro throws before its fetch, or Undefined
\* when it goes on to fetch (neuralseek.ts:301-306)
ConfigurationError(agent) ==
    IF ~isBaseConfigured
    THEN StrV(Str("NeuralSeek base URL or API key missing"))
    ELSE IF ~NonEmptyString(agent)
    THEN StrV(Str("NeuralSeek agent name is missing"))
    ELSE Undefined

\* the fetch of callMaistro (neuralseek.ts:308-329)
MaistroRequest(agent, userId) ==
    [ url |-> baseUrl.s \o Str("/maistro"),
      method |-> "POST",
      authorization |-> Str("Bearer ") \o apiKey.s,
      agent |-> agent,
      user_id |-> userId ]

\* input.companyName || 'FinanceUser' (neuralseek.ts:417)
FinancialUserId(in) ==
    IF in.companyName # <<>> THEN in.companyName ELSE Str("FinanceUser")

\* submission.metadata.owner || 'AutoNotesUser' (neuralseek.ts:361)
CallUserId(sub) == IF sub.owner # <<>> THEN sub.owner ELSE Str("AutoNotesUser")

\* the ways the awaited fetch yields no response body: the fetch rejects, the
\* response is not ok (status and body text), the body is not JSON
FetchFailures ==
    { [kind |-> "rejected", status |-> 0, detail |-> <<>>],
      [kind |-> "status", status |-> 500, detail |-> <<>>],
      [kind |-> "status", status |-> 401, detail |-> Str("denied")],
      [kind |-> "badJson", status |-> 200, detail |-> <<>>] }

\* the message of the Error callMaistro ends with (neuralseek.ts:331-338)
FailureMessage(f) ==
    IF f.kind = "status"
    THEN StrV(Str("NeuralSeek request failed with ") \o NatToString(f.status)
              \o Str(": ")
              \o (IF f.detail # <<>> THEN f.detail ELSE Str("Unknown error")))
    ELSE IF f.kind = "rejected" THEN StrV(Str("TypeError"))
    ELSE StrV(Str("SyntaxError"))

\* settings under which both agents are configured
CompleteEnv ==
    [ VITE_NEURALSEEK_BASE_URL |-> SV("https://ns.test/"),
      VITE_NEURALSEEK_AGENT |-> SV("notes"),
      VITE_NEURALSEEK_FIN_AGENT |-> SV("fin"),
      VITE_NEURALSEEK_API_KEY |-> SV("key") ]

\* a setting is unset, set to nothing, or set
Envs ==
    [ VITE_NEURALSEEK_BASE_URL : {Undefined, SV("/"), SV("https://ns.test/")},
      VITE_NEURALSEEK_AGENT : {Undefined, SV(""), SV("notes")},
      VITE_NEURALSEEK_FIN_AGENT : {Undefined, SV(""), SV("fin")},
      VITE_NEURALSEEK_API_KEY : {Undefined, SV(""), SV("key")} ]

-----------------------------------------------------------------------------
(* FinancialHealthPage: its state (FinancialHealthPage.tsx:13-58) *)

\* FinancialHealthPage.tsx:13
emptyForm ==
    [ companyName |-> <<>>, reportingPeriod |-> <<>>, balanceSheet |-> <<>>,
      incomeStatement |-> <<>>, cashflowStatement |-> <<>> ]

\* FinancialHealthPage.tsx:21
StatementFields == {"balanceSheet", "incomeStatement", "cashflowStatement"}

\* an agent that counts as configured only until one of its calls has failed
agentConfigured_untilFailure == isFinancialAgentConfigured /\ thrown = Undefined

\* FinancialHealthPage.tsx:60: isFinancialAgentConfigured() at mount, the
\* settings being fixed from then on
agentConfigured == isFinancialAgentConfigured

\* String.prototype.endsWith
endsWith(s, w) == Len(s) >= Len(w) /\ MatchAt(s, Len(s) - Len(w) + 1, w)

\* isSpreadsheet of handleSpreadsheetUpload (FinancialHealthPage.tsx:82-89)
isSpreadsheet(file) ==
    \/ file.type = Str("application/vnd.openxmlformats-officedocument.spreadsheetml.sheet")
    \/ file.type = Str("application/vnd.ms-excel")
    \/ endsWith(toLowerCase(file.name), Str(".xlsx"))
    \/ endsWith(toLowerCase(file.name), Str(".xls"))
    \/ endsWith(toLowerCase(file.name), Str(".csv"))

\* the validations of handleSubmit without the trim of the company name
FormProblem_untrimmed(f) ==
    IF f.companyName = <<>>
    THEN StrV(Str("Add your company name so we can tag the report."))
    ELSE IF f.balanceSheet = <<>> \/ f.incomeStatement = <<>>
            \/ f.cashflowStatement = <<>>
    THEN StrV(Str("Upload the balance sheet, income statement, and cash flow Excel workbooks."))
    ELSE Null

\* the message handleSubmit stops with before any analysis, or Null when it
\* goes on (FinancialHealthPage.tsx:115-123)
FormProblem(f) ==
    IF trim(f.companyName) = <<>>
    THEN StrV(Str("Add your company name so we can tag the report."))
    ELSE IF f.balanceSheet = <<>> \/ f.incomeStatement = <<>>
            \/ f.cashflowStatement = <<>>
    THEN StrV(Str("Upload the balance sheet, income statement, and cash flow Excel workbooks."))
    ELSE Null

\* the catch of handleSubmit leaving the error unset
AnalysisError_none == Null

\* the message the catch of handleSubmit sets (FinancialHealthPage.tsx:133-137)
AnalysisError ==
    IF agentConfigured
    THEN StrV(Str("NeuralSeek could not score your financials. Double-check the .env values and try again."))
    ELSE StrV(Str("We could not derive a mock score from the converted Excel statements. Clean up the data and retry."))

\* the files offered to a statement input: name, MIME type, and the text
\* spreadsheetToJsonString resolves with (Undefined: it rejects)
Files ==
    { [name |-> Str("Q1.XLSX"), type |-> <<>>,
       json |-> SV("[{\"Cash\":120,\"Net income\":40}]")],
      [name |-> Str("fy.csv"), type |-> Str("text/csv"),
       json |-> SV("[{\"Operating cash flow\":-90}]")],
      [name |-> Str("old.xls"), type |-> Str("application/vnd.ms-excel"),
       json |-> Undefined],
      [name |-> Str("notes.txt"), type |-> Str("text/plain"),
       json |-> Undefined] }

\* the files offered while a submit is modelled too
PageFiles == {file \in Files : file.name # Str("fy.csv")}

\* what is typed into the text inputs
TypedTexts ==
    [ companyName |-> {<<>>, Str("  "), Str("Acme")},
      reportingPeriod |-> {<<>>} ]

\* the settings the page is mounted under
PageEnvs ==
    { CompleteEnv,
      [CompleteEnv EXCEPT !.VITE_NEURALSEEK_FIN_AGENT = Undefined] }

\* the response bodies the agent answers a submit with
PageResponses ==
    { [variables |-> ObjV(<<KV("score", SV("0.8"))>>),
       variablesExpanded |-> Undefined, answer |-> SV("All good.")],
      [variables |-> Undefined, variablesExpanded |-> Undefined,
       answer |-> SV("{\"grade\": \"C-\"}")],
      Null }

\* the most conversions awaited at once
MaxInFlight == 2

\* the most analyses one run starts
MaxSubmits == 2

-----------------------------------------------------------------------------
(* The calls *)

\* nothing requested or thrown yet, under the settings of CompleteEnv
Connected ==
    /\ env = CompleteEnv
    /\ requests = <<>>
    /\ thrown = Undefined

\* the state FinancialHealthPage mounts with (FinancialHealthPage.tsx:50-58)
Mounted ==
    /\ form = emptyForm
    /\ error = Null
    /\ isLoading = FALSE
    /\ uploadedFiles = [f \in StatementFields |-> Null]
    /\ uploads = {}
    /\ invoked = <<>>

Init ==
    /\ pc = "idle"
    /\ raw = Undefined
    /\ input = Undefined
    /\ report = Undefined
    /\ callResult = Undefined
    /\ nvIn = Undefined
    /\ nvOut = Undefined
    /\ Connected
    /\ Mounted

\* runFinancialHealthAgent up to the await of fetch in callMaistro, the
\* configuration being complete (neuralseek.ts:411-418, 301-329)
StartFinancialAgent ==
    /\ pc = "idle"
    /\ ConfigurationError(finAgentName) = Undefined
    /\ \E in \in FinInputs :
          /\ input' = in
          /\ requests' = Append(requests,
                                MaistroRequest(finAgentName, FinancialUserId(in)))
    /\ pc' = "finAwait"
    /\ UNCHANGED <<raw, report, callResult, nvIn, nvOut, env, thrown, pageVars>>

\* callMaistro returns one of responses and runFinancialHealthAgent builds the
\* report or raises (neuralseek.ts:338, 419-530)
FinancialAgentAnswers(responses) ==
    /\ pc = "finAwait"
    /\ \E r \in responses :
          /\ raw' = r
          /\ IF ResponseRaises(r)
             THEN /\ thrown' = StrV(Str("TypeError"))
                  /\ pc' = "finFailed"
                  /\ UNCHANGED report
             ELSE /\ report' = FinancialReportOf(input, r)
                  /\ pc' = "finDone"
                  /\ UNCHANGED thrown
    /\ UNCHANGED <<input, callResult, nvIn, nvOut, env, requests, pageVars>>

FinancialAgentReturns == FinancialAgentAnswers(FinResponses)

NextFin == StartFinancialAgent \/ FinancialAgentReturns

SpecFin == Init /\ [][NextFin]_vars

\* runCallNotesAgent up to the await of fetch in callMaistro, the
\* configuration being complete (neuralseek.ts:355-362, 301-329)
StartCallNotesAgent ==
    /\ pc = "idle"
    /\ ConfigurationError(callAgentName) = Undefined
    /\ \E sub \in CallSubmissions :
          /\ input' = sub
          /\ requests' = Append(requests,
                                MaistroRequest(callAgentName, CallUserId(sub)))
    /\ pc' = "callAwait"
    /\ UNCHANGED <<raw, report, callResult, nvIn, nvOut, env, thrown, pageVars>>

\* callMaistro returns one of responses and runCallNotesAgent builds the
\* result or raises (neuralseek.ts:338, 363-391)
CallNotesAgentAnswers(responses) ==
    /\ pc = "callAwait"
    /\ \E r \in responses :
          /\ raw' = r
          /\ IF ResponseRaises(r)
             THEN /\ thrown' = StrV(Str("TypeError"))
                  /\ pc' = "callFailed"
                  /\ UNCHANGED callResult
             ELSE /\ callResult' = CallResultOf(r)
                  /\ pc' = "callDone"
                  /\ UNCHANGED thrown
    /\ UNCHANGED <<input, report, nvIn, nvOut, env, requests, pageVars>>

CallNotesAgentReturns == CallNotesAgentAnswers(CallResponses)

NextCall == StartCallNotesAgent \/ CallNotesAgentReturns

SpecCall == Init /\ [][NextCall]_vars

\* runFinancialHealthAgent under incomplete settings: callMaistro throws
\* before its fetch (neuralseek.ts:414, 301-306)
FinancialAgentNotConfigured ==
    /\ pc = "idle"
    /\ ConfigurationError(finAgentName) # Undefined
    /\ \E in \in FinInputs : input' = in
    /\ thrown' = ConfigurationError(finAgentName)
    /\ pc' = "finFailed"
    /\ UNCHANGED <<raw, report, callResult, nvIn, nvOut, env, requests, pageVars>>

\* the fetch awaited by runFinancialHealthAgent yields no response body:
\* callMaistro throws (neuralseek.ts:308, 331-338)
FinancialAgentFails ==
    /\ pc = "finAwait"
    /\ \E f \in FetchFailures : thrown' = FailureMessage(f)
    /\ pc' = "finFailed"
    /\ UNCHANGED <<raw, input, report, callResult, nvIn, nvOut, env, requests, pageVars>>

\* runCallNotesAgent under incomplete settings (neuralseek.ts:358, 301-306)
CallNotesAgentNotConfigured ==
    /\ pc = "idle"
    /\ ConfigurationError(callAgentName) # Undefined
    /\ \E sub \in CallSubmissions : input' = sub
    /\ thrown' = ConfigurationError(callAgentName)
    /\ pc' = "callFailed"
    /\ UNCHANGED <<raw, report, callResult, nvIn, nvOut, env, requests, pageVars>>

\* the fetch awaited by runCallNotesAgent yields no response body
\* (neuralseek.ts:308, 331-338)
CallNotesAgentFails ==
    /\ pc = "callAwait"
    /\ \E f \in FetchFailures : thrown' = FailureMessage(f)
    /\ pc' = "callFailed"
    /\ UNCHANGED <<raw, input, report, callResult, nvIn, nvOut, env, requests, pageVars>>

\* one call of either agent under any settings
InitMaistro ==
    /\ pc = "idle"
    /\ raw = Undefined
    /\ input = Undefined
    /\ report = Undefined
    /\ callResult = Undefined
    /\ nvIn = Undefined
    /\ nvOut = Undefined
    /\ env \in Envs
    /\ requests = <<>>
    /\ thrown = Undefined
    /\ Mounted

\* a few response bodies, well-shaped and not
SomeResponses ==
    [variables : {Undefined, ObjV(<<KV("score", SV("0.8")),
                                    KV("sentiment", SV("negative"))>>)},
     variablesExpanded :
         {Undefined, ArrV(<<[name |-> Str("Summary"), value |-> SV("ok")]>>)},
     answer : {Undefined, SV("All good.")}]
    \cup MalformedResponses

NextMaistro ==
    \/ StartFinancialAgent
    \/ FinancialAgentNotConfigured
    \/ FinancialAgentAnswers(SomeResponses)
    \/ FinancialAgentFails
    \/ StartCallNotesAgent
    \/ CallNotesAgentNotConfigured
    \/ CallNotesAgentAnswers(SomeResponses)
    \/ CallNotesAgentFails

SpecMaistro == InitMaistro /\ [][NextMaistro]_vars

\* the page mounted under settings with or without a financial agent
InitPage ==
    /\ pc = "idle"
    /\ raw = Undefined
    /\ input = Undefined
    /\ report = Null
    /\ callResult = Undefined
    /\ nvIn = Undefined
    /\ nvOut = Undefined
    /\ env \in PageEnvs
    /\ requests = <<>>
    /\ thrown = Undefined
    /\ Mounted

\* onChange of the company name and reporting period inputs: updateField
\* (FinancialHealthPage.tsx:62-64, 180, 190)
UpdateField ==
    /\ \E field \in {"companyName", "reportingPeriod"} :
          \E value \in TypedTexts[field] : form' = [form EXCEPT ![field] = value]
    /\ UNCHANGED <<pc, raw, input, report, callResult, nvIn, nvOut, netVars,
                   error, isLoading, uploadedFiles, uploads, invoked>>

\* clearStatement forgetting the file name and keeping the text
clearStatement_nameOnly(field) ==
    /\ uploadedFiles' = [uploadedFiles EXCEPT ![field] = Null]
    /\ form' = form

\* clearStatement (FinancialHealthPage.tsx:66-69): both updates are functions
\* of the state they find
clearStatement(field) ==
    /\ uploadedFiles' = [uploadedFiles EXCEPT ![field] = Null]
    /\ form' = [form EXCEPT ![field] = <<>>]

\* clearStatement by the Clear button, enabled while a file is shown
\* (FinancialHealthPage.tsx:66-69, 224-225)
ClearStatement ==
    /\ \E field \in StatementFields :
          /\ uploadedFiles[field] # Null
          /\ uploadedFiles[field] # StrV(<<>>)
          /\ clearStatement(field)
    /\ UNCHANGED <<pc, raw, input, report, callResult, nvIn, nvOut, netVars,
                   error, isLoading, uploads, invoked>>

\* handleSpreadsheetUpload without a file: clearStatement
\* (FinancialHealthPage.tsx:75-80)
SelectNoFile ==
    /\ \E field \in StatementFields : clearStatement(field)
    /\ UNCHANGED <<pc, raw, input, report, callResult, nvIn, nvOut, netVars,
                   error, isLoading, uploads, invoked>>

\* handleSpreadsheetUpload with a file that is no spreadsheet
\* (FinancialHealthPage.tsx:82-95)
RejectFile ==
    /\ \E file \in Files : ~isSpreadsheet(file)
    /\ error' = StrV(Str("Upload Excel exports (.xlsx or .xls) from your finance system."))
    /\ UNCHANGED <<pc, raw, input, report, callResult, nvIn, nvOut, netVars,
                   form, isLoading, uploadedFiles, uploads, invoked>>

\* handleSpreadsheetUpload with one of files up to its await of
\* spreadsheetToJsonString, at most limit conversions being awaited
\* (FinancialHealthPage.tsx:82-98)
StartUpload(files, limit) ==
    /\ Cardinality(uploads) < limit
    /\ \E field \in StatementFields, file \in files :
          /\ isSpreadsheet(file)
          /\ uploads' = uploads \cup {[field |-> field, file |-> file]}
    /\ UNCHANGED <<pc, raw, input, report, callResult, nvIn, nvOut, netVars,
                   form, error, isLoading, uploadedFiles, invoked>>

\* spreadsheetToJsonString resolves and handleSpreadsheetUpload stores the text
\* and the file name (FinancialHealthPage.tsx:98-101, 107)
ConversionResolves ==
    /\ \E u \in uploads :
          /\ u.file.json # Undefined
          /\ form' = [form EXCEPT ![u.field] = u.file.json.s]
          /\ uploadedFiles' = [uploadedFiles EXCEPT ![u.field] = StrV(u.file.name)]
          /\ uploads' = uploads \ {u}
    /\ error' = Null
    /\ UNCHANGED <<pc, raw, input, report, callResult, nvIn, nvOut, netVars,
                   isLoading, invoked>>

\* spreadsheetToJsonString rejects and handleSpreadsheetUpload clears the
\* statement (FinancialHealthPage.tsx:102-107)
ConversionRejects ==
    /\ \E u \in uploads :
          /\ u.file.json = Undefined
          /\ clearStatement(u.field)
          /\ uploads' = uploads \ {u}
    /\ error' = StrV(Str("We could not parse that spreadsheet. Export a clean .xlsx and re-upload."))
    /\ UNCHANGED <<pc, raw, input, report, callResult, nvIn, nvOut, netVars,
                   isLoading, invoked>>

\* handleSubmit stopping at a validation (FinancialHealthPage.tsx:111-123);
\* the submit button is disabled while isLoading (251)
SubmitRejected ==
    /\ ~isLoading
    /\ FormProblem(form) # Null
    /\ error' = FormProblem(form)
    /\ UNCHANGED <<pc, raw, input, report, callResult, nvIn, nvOut, netVars,
                   form, isLoading, uploadedFiles, uploads, invoked>>

\* handleSubmit without a configured agent: buildMockFinancialReport, with no
\* await between setIsLoading(true) and setIsLoading(false)
\* (FinancialHealthPage.tsx:111-141)
SubmitHeuristic ==
    /\ ~isLoading
    /\ FormProblem(form) = Null
    /\ ~agentConfigured
    /\ Len(invoked) < MaxSubmits
    /\ invoked' = Append(invoked, "buildMockFinancialReport")
    /\ input' = form
    /\ report' = buildMockFinancialReport(form)
    /\ error' = Null
    /\ isLoading' = FALSE
    /\ UNCHANGED <<pc, raw, callResult, nvIn, nvOut, netVars,
                   form, uploadedFiles, uploads>>

\* handleSubmit with a configured agent, up to the await of fetch in
\* callMaistro (FinancialHealthPage.tsx:111-128, neuralseek.ts:414, 301-329)
SubmitAgent ==
    /\ ~isLoading
    /\ FormProblem(form) = Null
    /\ agentConfigured
    /\ ConfigurationError(finAgentName) = Undefined
    /\ Len(invoked) < MaxSubmits
    /\ invoked' = Append(invoked, "runFinancialHealthAgent")
    /\ input' = form
    /\ requests' = Append(requests,
                          MaistroRequest(finAgentName, FinancialUserId(form)))
    /\ thrown' = Undefined
    /\ error' = Null
    /\ isLoading' = TRUE
    /\ pc' = "submitAwait"
    /\ UNCHANGED <<raw, report, callResult, nvIn, nvOut, env,
                   form, uploadedFiles, uploads>>

\* the agent answers: runFinancialHealthAgent returns the report, which
\* handleSubmit stores, or raises, which handleSubmit catches
\* (neuralseek.ts:338, 419-530, FinancialHealthPage.tsx:130-140)
SubmitAgentReturns ==
    /\ pc = "submitAwait"
    /\ \E r \in PageResponses :
          /\ raw' = r
          /\ IF ResponseRaises(r)
             THEN /\ thrown' = StrV(Str("TypeError"))
                  /\ error' = AnalysisError
                  /\ UNCHANGED report
             ELSE /\ report' = FinancialReportOf(input, r)
                  /\ UNCHANGED <<thrown, error>>
    /\ isLoading' = FALSE
    /\ pc' = "idle"
    /\ UNCHANGED <<input, callResult, nvIn, nvOut, env, requests,
                   form, uploadedFiles, uploads, invoked>>

\* the awaited fetch yields no response body: callMaistro throws and
\* handleSubmit catches (neuralseek.ts:308, 331-338,
\* FinancialHealthPage.tsx:131-140)
SubmitAgentFails ==
    /\ pc = "submitAwait"
    /\ \E f \in FetchFailures : thrown' = FailureMessage(f)
    /\ error' = AnalysisError
    /\ isLoading' = FALSE
    /\ pc' = "idle"
    /\ UNCHANGED <<raw, input, report, callResult, nvIn, nvOut, env, requests,
                   form, uploadedFiles, uploads, invoked>>

NextPage ==
    \/ UpdateField
    \/ ClearStatement
    \/ SelectNoFile
    \/ RejectFile
    \/ StartUpload(PageFiles, 1)
    \/ ConversionResolves
    \/ ConversionRejects
    \/ SubmitRejected
    \/ SubmitHeuristic
    \/ SubmitAgent
    \/ SubmitAgentReturns
    \/ SubmitAgentFails

SpecPage == InitPage /\ [][NextPage]_vars

\* the statement uploads of the page alone, several conversions being awaited
\* at once
NextUploads ==
    \/ ClearStatement
    \/ SelectNoFile
    \/ RejectFile
    \/ StartUpload(Files, MaxInFlight)
    \/ ConversionResolves
    \/ ConversionRejects

SpecUploads == InitPage /\ [][NextUploads]_vars

\* buildMockFinancialReport applied to drawn statement texts
InitMock ==
    /\ pc = "start"
    /\ input \in MockInputs
    /\ raw = Undefined
    /\ report = Undefined
    /\ callResult = Undefined
    /\ nvIn = Undefined
    /\ nvOut = Undefined
    /\ Connected
    /\ Mounted

BuildMockFinancialReport ==
    /\ pc = "start"
    /\ report' = buildMockFinancialReport(input)
    /\ pc' = "mockDone"
    /\ UNCHANGED <<raw, input, callResult, nvIn, nvOut, netVars, pageVars>>

NextMock == BuildMockFinancialReport

SpecMock == InitMock /\ [][NextMock]_vars

\* normalizeVariableKeys applied to a drawn object
InitNorm ==
    /\ pc = "start"
    /\ nvIn \in NormInputs
    /\ raw = Undefined
    /\ input = Undefined
    /\ report = Undefined
    /\ callResult = Undefined
    /\ nvOut = Undefined
    /\ Connected
    /\ Mounted

NormalizeVariableKeys ==
    /\ pc = "start"
    /\ nvOut' = normalizeVariableKeys(nvIn)
    /\ pc' = "normDone"
    /\ UNCHANGED <<raw, input, report, callResult, nvIn, netVars, pageVars>>

NextNorm == NormalizeVariableKeys

SpecNorm == InitNorm /\ [][NextNorm]_vars

\* both report builders side by side: a run is one call of either
InitReports == Init \/ InitMock

NextReports == NextFin \/ NextMock

SpecReports == InitReports /\ [][NextReports]_vars

-----------------------------------------------------------------------------
(* Properties of runFinancialHealthAgent's variable merge *)

\* the JSON object recovered from the answer of response, as entries
AnswerEntries(response) ==
    LET fromAnswer == extractJsonObjectFromAnswer(response.answer)
    IN  IF Nullish(fromAnswer) THEN <<>> ELSE fromAnswer.o

\* the keys a response carries both explicitly and in its answer's JSON
SharedKeys(response) ==
    {k \in Keys(extractVariables(response)) : HasKey(AnswerEntries(response), k)}

\* C1: in runFinancialHealthAgent a key carried both by the explicit variables
\* and by the JSON object of the answer resolves to the explicit value, and a
\* key carried only by the JSON object resolves to the JSON value.
C1_ExplicitVariablesWin ==
    pc = "finDone" =>
        /\ \A k \in SharedKeys(raw) :
              Get(FinancialVariables(raw), k) = Get(extractVariables(raw), k)
        /\ \A k \in Keys(AnswerEntries(raw)) \ Keys(extractVariables(raw)) :
              Get(FinancialVariables(raw), k) = Get(AnswerEntries(raw), k)

-----------------------------------------------------------------------------
(* Properties of runCallNotesAgent's variable lookup *)

\* response delivers exactly one variable, through variablesExpanded, under
\* the name `name` with a non-blank string value
OnlyVariable(response, name) ==
    /\ response.variables = Undefined
    /\ response.variablesExpanded # Undefined
    /\ Len(response.variablesExpanded.a) = 1
    /\ response.variablesExpanded.a[1].name = name
    /\ response.variablesExpanded.a[1].value.t = "string"
    /\ trim(response.variablesExpanded.a[1].value.s) # <<>>

\* C2: in runCallNotesAgent a response whose only variable is named 'Summary'
\* is found by the lookup of 'summary', and the result's summary is its value.
C2_SummaryLookupIgnoresCase ==
    (pc = "callDone" /\ OnlyVariable(raw, Str("Summary"))) =>
        /\ callResult.summary # Undefined
        /\ callResult.summary.s = trim(raw.variablesExpanded.a[1].value.s)

-----------------------------------------------------------------------------
(* Properties of the score of a FinancialHealthReport *)

\* no explicit score field parses and no grade maps to a score
NoScoreDiscoverable(response) ==
    LET variables == FinancialVariables(response)
        V(k) == Get(variables, Str(k))
    IN  /\ \A k \in {Str("healthScore"), Str("overallHealthScore"),
                     Str("healthscore"), Str("overallhealthscore"), Str("score")} :
              parseNumberValue(Get(variables, k)) = Undefined
        /\ scoreFromGrade(pickFirstString(<<V("healthgrade"), V("grade")>>))
               = Undefined

\* C3: the score of every report is in [0,1]: on the agent path whatever the
\* response, 0 when no score is discoverable, and within [0.05, 0.98] on the
\* heuristic path.
C3_ScoreInUnitInterval ==
    /\ pc = "finDone" =>
          /\ RatGE(report.score, RatInt(0))
          /\ RatLE(report.score, RatInt(1))
          /\ NoScoreDiscoverable(raw) => report.score = RatInt(0)
    /\ pc = "mockDone" =>
          /\ RatGE(report.score, Rat(5, 100))
          /\ RatLE(report.score, Rat(98, 100))

-----------------------------------------------------------------------------
(* Properties of the lists of a FinancialHealthReport *)

ListsOf(r) == <<r.strengths, r.risks, r.recommendations>>

StrengthKeys ==
    {Str("strengths"), Str("highlights"), Str("positives"), Str("keyratios"),
     Str("optionalinsights"), Str("insights")}
RiskKeys ==
    {Str("risks"), Str("riskalerts"), Str("concerns"), Str("weaknesses"),
     Str("optionalinsights"), Str("insights")}
RecommendationKeys ==
    {Str("recommendations"), Str("improvementactions"), Str("nextsteps"),
     Str("optionalinsights"), Str("insights"), Str("futureplan")}

-----------------------------------------------------------------------------
(* Properties of the status of a FinancialHealthReport *)

StatusSet ==
    {Str("Strong"), Str("Stable"), Str("Watch"), Str("At Risk"), Str("Unknown")}

\* the explicit status field of a response (healthstatus, status,
\* financialhealth, first non-empty), the grade string and the explicit score
ExplicitStatus(response) ==
    LET variables == FinancialVariables(response)
        V(k) == Get(variables, Str(k))
    IN  pickFirstString(<<V("healthstatus"), V("status"), V("financialhealth")>>)

GradeOf(response) ==
    LET variables == FinancialVariables(response)
        V(k) == Get(variables, Str(k))
    IN  pickFirstString(<<V("healthgrade"), V("grade")>>)

ExplicitScore(response) ==
    LET variables == FinancialVariables(response)
        V(k) == Get(variables, Str(k))
    IN  pickFirstNumber(<<V("healthScore"), V("overallHealthScore"),
                          V("healthscore"), V("overallhealthscore"), V("score")>>)

\* C5 as stated: on both paths the status is one of the five labels.
C5_StatusInLabelSet ==
    pc \in {"finDone", "mockDone"} => report.status \in StatusSet

\* C5 (amended): the status is one of the five labels on the heuristic path,
\* and on the agent path unless an explicit status field resolves, in which
\* case the status is that field's trimmed text whatever it says.
C5_StatusInLabelSetUnlessExplicit ==
    /\ pc = "mockDone" => report.status \in StatusSet
    /\ pc = "finDone" =>
          IF ExplicitStatus(raw) # Undefined
          THEN report.status = ExplicitStatus(raw).s
          ELSE report.status \in StatusSet

\* an agent report whose status is an explicit text outside the five labels
C5_Witness ==
    /\ pc = "finDone"
    /\ ExplicitStatus(raw) # Undefined
    /\ report.status = Str("Healthy")

\* the status the first letter of an upper-cased, trimmed grade stands for
LetterStatus(g) ==
    LET letter == IF g = <<>> THEN "" ELSE g[1]
    IN  CASE letter = "A" -> Str("Strong")
          [] letter = "B" -> Str("Stable")
          [] letter = "C" -> Str("Watch")
          [] OTHER -> Str("At Risk")

\* the status the thresholds give a score
ThresholdStatus(s) ==
    IF RatGE(s, Rat(75, 100)) THEN Str("Strong")
    ELSE IF RatGE(s, Rat(55, 100)) THEN Str("Stable")
    ELSE IF RatGE(s, Rat(35, 100)) THEN Str("Watch")
    ELSE Str("At Risk")

\* C6: runFinancialHealthAgent resolves the status from the first non-empty
\* explicit status field, else from the first letter of the grade, else from
\* the thresholds of the final score, else as Unknown; the grade gives the
\* score only when no explicit score resolves, and an unmatched grade gives
\* none (the score is then 0).
C6_StatusPriority ==
    pc = "finDone" =>
        LET st == ExplicitStatus(raw)
            gr == GradeOf(raw)
            sc == ExplicitScore(raw)
        IN  /\ st # Undefined => report.status = st.s
            /\ (st = Undefined /\ gr # Undefined) =>
                  report.status = LetterStatus(toUpperCase(trim(gr.s)))
            /\ (st = Undefined /\ gr = Undefined /\ sc # Undefined) =>
                  report.status = ThresholdStatus(report.score)
            /\ (st = Undefined /\ gr = Undefined /\ sc = Undefined) =>
                  report.status = Str("Unknown")
            /\ sc # Undefined => report.score = sc.r
            /\ (sc = Undefined /\ gr # Undefined) =>
                  LET g == toUpperCase(trim(gr.s))
                  IN  IF \E i \in 1..Len(GradeTable) : GradeTable[i][1] = g
                      THEN \E i \in 1..Len(GradeTable) :
                              /\ GradeTable[i][1] = g
                              /\ report.score = Rat(GradeTable[i][2], 100)
                      ELSE report.score = RatInt(0)
            /\ (sc = Undefined /\ gr = Undefined) => report.score = RatInt(0)

\* an agent report with a grade and an explicit score but no explicit status:
\* the status is the grade's, the score the explicit one
C6_Witness ==
    /\ pc = "finDone"
    /\ ExplicitStatus(raw) = Undefined
    /\ GradeOf(raw) # Undefined
    /\ ExplicitScore(raw) # Undefined
    /\ report.status # ThresholdStatus(report.score)

-----------------------------------------------------------------------------
(* Properties of normalizeVariableKeys *)

\* C7: normalizeVariableKeys(M) = N where (a) every key of M is in N with its
\* value of M, (b) the lowercased form of every key of M is a key of N, and
\* (c) N has no keys but those of M and their lowercased forms.
C7_NormalizedKeys ==
    pc = "normDone" =>
        /\ \A i \in 1..Len(nvIn) :
              /\ HasKey(nvOut, nvIn[i].k)
              /\ Get(nvOut, nvIn[i].k) = nvIn[i].v
        /\ \A i \in 1..Len(nvIn) : HasKey(nvOut, toLowerCase(nvIn[i].k))
        /\ Keys(nvOut) \subseteq
              Keys(nvIn) \cup {toLowerCase(k) : k \in Keys(nvIn)}

-----------------------------------------------------------------------------
(* Properties of buildMockFinancialReport *)

\* +0.15 / -0.15 by the sign of a metric, nothing when it is absent or zero
SignTerm(x) ==
    IF ~IsNum(x) THEN 0
    ELSE IF x.r.n > 0 THEN 15
    ELSE IF x.r.n < 0 THEN -15
    ELSE 0

\* +0.15 when a metric is positive, -0.15 when it is zero or negative,
\* nothing when it is absent
PositiveTerm(x) ==
    IF ~IsNum(x) THEN 0
    ELSE IF x.r.n > 0 THEN 15
    ELSE -15

\* +0.10 at or above hi, -0.10 below lo, nothing between or when absent
BandTerm(x, lo, hi) ==
    IF ~IsNum(x) THEN 0
    ELSE IF RatGE(x.r, hi) THEN 10
    ELSE IF RatLT(x.r, lo) THEN -10
    ELSE 0

\* +0.05 when cash exceeds totalDebt, -0.05 when not, nothing when either is
\* absent
ExceedsTerm(cash, totalDebt) ==
    IF ~IsNum(cash) \/ ~IsNum(totalDebt) THEN 0
    ELSE IF RatGT(cash.r, totalDebt.r) THEN 5
    ELSE -5

\* clamp(0.5 + hundredths / 100, 0.05, 0.98)
ClampedFromHalf(hundredths) ==
    RatMin(Rat(98, 100), RatMax(Rat(5, 100), Rat(50 + hundredths, 100)))

\* no statement yields any metric
NoMetrics(m) ==
    \A x \in {m.revenue, m.netIncome, m.operatingExpenses, m.cash,
              m.currentAssets, m.currentLiabilities, m.totalDebt,
              m.operatingCashFlow, m.freeCashFlow} : x = Undefined

\* C8 as stated: the score is clamp(0.5 + a + b + c + d + e, 0.05, 0.98) with
\* a and b +0.15 for a positive and -0.15 for a negative metric.
C8_ScoreFormula ==
    pc = "mockDone" =>
        LET m == MockMetrics(input)
        IN  /\ report.score =
                  ClampedFromHalf(SignTerm(m.netIncome)
                                  + SignTerm(m.operatingCashFlow)
                                  + BandTerm(m.liquidityRatio, RatInt(1), Rat(3, 2))
                                  + BandTerm(m.runwayMonths, RatInt(6), RatInt(12))
                                  + ExceedsTerm(m.cash, m.totalDebt))
            /\ NoMetrics(m) =>
                  report.score = Rat(1, 2) /\ report.status = Str("Watch")

\* C8 (amended): the same formula with a and b +0.15 for a positive metric
\* and -0.15 for a zero or negative one; with no metrics the score is exactly
\* 0.5 and the status Watch.
C8_ScoreFormulaZeroCountsNegative ==
    pc = "mockDone" =>
        LET m == MockMetrics(input)
        IN  /\ report.score =
                  ClampedFromHalf(PositiveTerm(m.netIncome)
                                  + PositiveTerm(m.operatingCashFlow)
                                  + BandTerm(m.liquidityRatio, RatInt(1), Rat(3, 2))
                                  + BandTerm(m.runwayMonths, RatInt(6), RatInt(12))
                                  + ExceedsTerm(m.cash, m.totalDebt))
            /\ NoMetrics(m) =>
                  report.score = Rat(1, 2) /\ report.status = Str("Watch")

\* a heuristic report over a net income of exactly zero
C8_Witness ==
    /\ pc = "mockDone"
    /\ IsNum(MockMetrics(input).netIncome)
    /\ MockMetrics(input).netIncome.r.n = 0
    /\ RatLT(report.score, Rat(1, 2))

\* sentence is an entry of list
InList(sentence, list) == \E i \in 1..Len(list) : list[i] = sentence

\* list holds default exactly when nothing fired, being then that one entry,
\* and is otherwise the fired sentences in their order
FallbackRule(list, fired, default) ==
    /\ InList(default, list) <=> fired = <<>>
    /\ fired = <<>> => list = <<default>>
    /\ fired # <<>> => list = fired

\* C9: in buildMockFinancialReport a list holds its default sentence exactly
\* when none of its conditions fired, and is then that one entry; otherwise
\* it holds the fired sentences in checklist order. With no metrics all three
\* lists are their single fallback sentence and the summary is
\* '<companyName or The company> financials were analyzed with local
\* heuristics.'.
C9_FallbackIffNothingFired ==
    pc = "mockDone" =>
        LET m == MockMetrics(input)
        IN  /\ FallbackRule(report.strengths, StrengthsFired(m), StrengthsFallback)
            /\ FallbackRule(report.risks, RisksFired(m), RisksFallback)
            /\ FallbackRule(report.recommendations, RecommendationsFired(m),
                            RecommendationsFallback)
            /\ NoMetrics(m) =>
                  /\ report.strengths =
                        <<Str("Statements look complete, enabling quick diagnostics even without AI output.")>>
                  /\ report.risks =
                        <<Str("No acute risks detected from the text provided.")>>
                  /\ report.recommendations =
                        <<Str("Maintain current plan; monitor cash trends monthly to stay ahead of shifts.")>>
                  /\ report.summary =
                        (IF input.companyName # <<>> THEN input.companyName
                         ELSE Str("The company"))
                        \o Str(" financials were analyzed with local heuristics.")

\* a heuristic report for an unnamed company over statements without metrics
C9_Witness ==
    /\ pc = "mockDone"
    /\ NoMetrics(MockMetrics(input))
    /\ input.companyName = <<>>
    /\ report.risks = <<RisksFallback>>

-----------------------------------------------------------------------------
(* Properties of the lists of a CallAgentResult *)

NoDuplicates(list) == \A i, j \in 1..Len(list) : list[i] = list[j] => i = j

\* C10: each of nextSteps, actionItems, objections and tags of a result of
\* runCallNotesAgent is absent or a non-empty list without duplicate or blank
\* entries.
C10_ListsAbsentOrDeduplicated ==
    pc = "callDone" =>
        \A list \in {callResult.nextSteps, callResult.actionItems,
                     callResult.objections, callResult.tags} :
            \/ list = Undefined
            \/ /\ list.a # <<>>
               /\ NoDuplicates(list.a)
               /\ \A i \in 1..Len(list.a) : trim(list.a[i]) # <<>>

-----------------------------------------------------------------------------
(* Properties of the sentiment of a CallAgentResult *)

\* the value runCallNotesAgent hands to parseSentimentValue (neuralseek.ts:385)
SentimentSource(response) ==
    Coalesce(Get(extractVariables(response), Str("sentiment")),
             Get(extractVariables(response), Str("sentimentAnalysis")))

\* value carries a label parseSentimentValue reads: a string, or an object
\* with a string label
LabelResolvable(value) ==
    \/ value.t = "string"
    \/ value.t = "object" /\ Get(value.o, Str("label")).t = "string"

\* value carries a score parseSentimentValue reads: digits in a string, or a
\* score field parseNumberValue accepts
ScoreResolvable(value) ==
    \/ value.t = "string" /\ \E i \in 1..Len(value.s) : IsDigit(value.s[i])
    \/ value.t = "object" /\ ~Nullish(parseNumberValue(Get(value.o, Str("score"))))

\* C11: the sentiment of every result of runCallNotesAgent has a label among
\* Positive, Negative, Neutral and a score within [-1, 1], whatever the
\* sentiment value of the response; it is Neutral with score 0 when the value
\* carries no label, and has the label's default score (0.6, -0.6, 0) when the
\* value carries a label and no score.
C11_SentimentWellFormed ==
    pc = "callDone" =>
        /\ callResult.sentiment.label \in
              {Str("Positive"), Str("Negative"), Str("Neutral")}
        /\ RatLE(RatInt(-1), callResult.sentiment.score)
        /\ RatLE(callResult.sentiment.score, RatInt(1))
        /\ ~LabelResolvable(SentimentSource(raw)) =>
              callResult.sentiment = [label |-> Str("Neutral"), score |-> RatInt(0)]
        /\ (LabelResolvable(SentimentSource(raw))
              /\ ~ScoreResolvable(SentimentSource(raw))) =>
              callResult.sentiment.score =
                  defaultSentimentScore(callResult.sentiment.label)

-----------------------------------------------------------------------------
(* Properties of callMaistro *)

\* a setting that is unset or set to the empty string
Absent(x) == x = Undefined \/ x = StrV(<<>>)

\* a call of the agent has started and ended or awaits its response
Called(agent) == pc \in {agent \o "Await", agent \o "Done", agent \o "Failed"}

\* the two messages of callMaistro's configuration checks
ConfigurationMessages ==
    { StrV(Str("NeuralSeek base URL or API key missing")),
      StrV(Str("NeuralSeek agent name is missing")) }

\* a call of callMaistro for the agent named by setting, made while the base
\* URL, the API key or that name is absent, has failed with a configuration
\* error without a request
FailsFast(agent, setting) ==
    (/\ Called(agent)
     /\ \/ Absent(env.VITE_NEURALSEEK_BASE_URL)
        \/ Absent(env.VITE_NEURALSEEK_API_KEY)
        \/ Absent(setting)) =>
        /\ pc = agent \o "Failed"
        /\ thrown \in ConfigurationMessages
        /\ requests = <<>>

\* C12: a call of callMaistro made while the base URL, the API key or the
\* agent name is absent fails with a configuration error before any request;
\* every request sent is a POST to <base URL>/maistro made under a complete
\* configuration and names the agent.
C12_NoRequestUnlessConfigured ==
    /\ FailsFast("fin", env.VITE_NEURALSEEK_FIN_AGENT)
    /\ FailsFast("call", env.VITE_NEURALSEEK_AGENT)
    /\ \A i \in 1..Len(requests) :
          /\ isBaseConfigured
          /\ NonEmptyString(requests[i].agent)
          /\ requests[i].method = "POST"
          /\ requests[i].url = baseUrl.s \o Str("/maistro")

\* runFinancialHealthAgent called with a base URL and an API key and without
\* an agent name
C12_Witness ==
    /\ pc = "finFailed"
    /\ isBaseConfigured
    /\ env.VITE_NEURALSEEK_FIN_AGENT = Undefined
    /\ thrown = StrV(Str("NeuralSeek agent name is missing"))
    /\ requests = <<>>

-----------------------------------------------------------------------------
(* Properties of handleSubmit *)

\* the calls of runFinancialHealthAgent among the first n builder calls
AgentCalls(calls) ==
    Cardinality({i \in 1..Len(calls) : calls[i] = "runFinancialHealthAgent"})

\* C13: a call of runFinancialHealthAgent whose request fails (the fetch
\* rejects, the response is not ok, the body is no JSON, the report builder
\* raises) yields no report and sends no further request, every call sending
\* exactly one; handleSubmit then sets the error message, leaves the
\* displayed report as it was and puts isLoading back to false.
C13_FailureFailsWholeOperation ==
    [][ /\ Len(requests') = AgentCalls(invoked')
        /\ (pc = "submitAwait" /\ thrown' # Undefined) =>
              /\ error' = StrV(Str("NeuralSeek could not score your financials. Double-check the .env values and try again."))
              /\ report' = report
              /\ isLoading' = FALSE
              /\ requests' = requests
              /\ invoked' = invoked
              /\ pc' = "idle" ]_vars

\* a second analysis has just failed on a non-2xx response, the report of
\* the first still displayed
C13_Witness ==
    /\ pc = "idle"
    /\ thrown = StrV(Str("NeuralSeek request failed with 500: Unknown error"))
    /\ error = AnalysisError
    /\ report \notin {Null, Undefined}
    /\ ~isLoading
    /\ Len(requests) = 2

\* C14: which builder handleSubmit calls depends on the settings alone: with
\* a configured financial agent every analysis is a call of
\* runFinancialHealthAgent, also after a call of it has failed; without one
\* every analysis is a call of buildMockFinancialReport and no request is
\* ever sent.
C14_PathFixedByConfiguration ==
    /\ isFinancialAgentConfigured =>
          \A i \in 1..Len(invoked) : invoked[i] = "runFinancialHealthAgent"
    /\ ~isFinancialAgentConfigured =>
          /\ \A i \in 1..Len(invoked) : invoked[i] = "buildMockFinancialReport"
          /\ requests = <<>>
          /\ pc = "idle"

\* a second analysis started after the first call of the agent had failed
C14_Witness ==
    /\ isFinancialAgentConfigured
    /\ invoked = <<"runFinancialHealthAgent", "runFinancialHealthAgent">>
    /\ report = Null
    /\ pc = "submitAwait"

\* a step of handleSubmit up to its first await or its end
HandleSubmitStep == SubmitRejected \/ SubmitHeuristic \/ SubmitAgent

\* the company name is blank or a statement text is empty
Unfilled(f) ==
    \/ trim(f.companyName) = <<>>
    \/ \E field \in StatementFields : f[field] = <<>>

\* C15: a submit made while the company name is blank or one of the three
\* statement texts is empty sets an error, starts no analysis, leaves
\* isLoading false and the report unchanged; no analysis and no request is
\* ever started from such a form.
C15_NoAnalysisOfUnfilledForm ==
    [][ /\ (invoked' # invoked \/ requests' # requests \/ (~isLoading /\ isLoading'))
            => ~Unfilled(form)
        /\ (Unfilled(form) /\ HandleSubmitStep) =>
              /\ error' \notin {Null, Undefined}
              /\ isLoading' = FALSE
              /\ report' = report
              /\ invoked' = invoked
              /\ requests' = requests
              /\ pc' = pc ]_vars

\* a submit with a blank company name has just been refused, an earlier
\* report still displayed
C15_Witness ==
    /\ error = StrV(Str("Add your company name so we can tag the report."))
    /\ form.companyName = Str("  ")
    /\ report \notin {Null, Undefined}
    /\ ~isLoading
    /\ Len(invoked) = 1

-----------------------------------------------------------------------------
(* Properties of the report builders on malformed responses *)

\* C16: once callMaistro has returned a response body, runFinancialHealthAgent
\* and runCallNotesAgent build their result whatever the shape of the body
\* (a variablesExpanded that is no list, entries that are null or no records,
\* fields of another type): neither raises.
C16_ReportBuildingNeverRaises ==
    raw # Undefined => pc \in {"finDone", "callDone"}

-----------------------------------------------------------------------------
(* Properties of findMetricValue *)

\* three of the searches of buildMockFinancialReport, one per statement
\* (neuralseek.ts:617, 624, 640)
MetricQueries(in) ==
    { [text |-> in.balanceSheet,
       keywords |-> <<Str("cash and cash equivalents"), Str("cash & equivalents"),
                      Str("cash balance"), Str("cash")>>],
      [text |-> in.incomeStatement,
       keywords |-> <<Str("net income"), Str("profit"), Str("earnings")>>],
      [text |-> in.cashflowStatement,
       keywords |-> <<Str("operating cash flow"), Str("cash from operations")>>] }

\* orderings of a keyword list: its rotations and its reversal
Reorderings(keywords) ==
    {[i \in 1..Len(keywords) |-> keywords[((i + k) % Len(keywords)) + 1]] :
        k \in 1..Len(keywords)}
    \cup {[i \in 1..Len(keywords) |-> keywords[Len(keywords) + 1 - i]]}

\* line names one of keywords, whatever the case
Mentions(line, keywords) ==
    \E i \in 1..Len(keywords) : includes(toLowerCase(line), keywords[i])

\* the least index of lines satisfying P, or 0
FirstIndex(lines, P(_)) ==
    IF \E i \in 1..Len(lines) : P(lines[i])
    THEN CHOOSE i \in 1..Len(lines) :
            P(lines[i]) /\ \A j \in 1..(i - 1) : ~P(lines[j])
    ELSE 0

\* the number extracted from line i of lines, Undefined for i = 0
NumberOfLine(lines, i) ==
    IF i = 0 THEN Undefined ELSE extractNumberFromLine(lines[i])

\* findMetricValue gives the same for every ordering of the keywords
OrderIrrelevant(q) ==
    \A keywords \in Reorderings(q.keywords) :
        findMetricValue(q.text, keywords) = findMetricValue(q.text, q.keywords)

\* C17 as claimed: findMetricValue returns what extractNumberFromLine gives for
\* the first of the trimmed non-empty lines that contains a keyword, whatever
\* the case and whatever the order of the keywords, without looking at later
\* lines.
C17_FirstMentionDecides ==
    pc = "mockDone" =>
        \A q \in MetricQueries(input) :
            /\ findMetricValue(q.text, q.keywords) =
                  NumberOfLine(splitLines(q.text),
                      FirstIndex(splitLines(q.text),
                                 LAMBDA line : Mentions(line, q.keywords)))
            /\ OrderIrrelevant(q)

\* C17: findMetricValue returns the number of the first of the trimmed
\* non-empty lines that contains a keyword, whatever the case, and from which
\* extractNumberFromLine extracts a number; a line that contains a keyword and
\* no number is passed over; it returns nothing when there is no such line,
\* and the order of the keywords has no influence.
C17_FirstMentionWithNumberDecides ==
    pc = "mockDone" =>
        \A q \in MetricQueries(input) :
            /\ findMetricValue(q.text, q.keywords) =
                  NumberOfLine(splitLines(q.text),
                      FirstIndex(splitLines(q.text),
                                 LAMBDA line :
                                    /\ Mentions(line, q.keywords)
                                    /\ extractNumberFromLine(line).t = "number"))
            /\ OrderIrrelevant(q)

\* a balance sheet whose first line naming cash holds no number and whose
\* second does
C17_Witness ==
    /\ pc = "mockDone"
    /\ Len(splitLines(input.balanceSheet)) >= 2
    /\ splitLines(input.balanceSheet)[1] = Str("Cash and cash equivalents")
    /\ MockMetrics(input).cash = NumV(RatInt(120))

-----------------------------------------------------------------------------
(* Properties of monthlyBurn and runwayMonths *)

\* the monthly burn as claimed: a third of a negative operating cash flow,
\* else a twelfth of the operating expenses, at least 1, whenever they are a
\* number, else a third of a negative free cash flow, else absent
ClaimedBurn(m) ==
    IF IsNum(m.operatingCashFlow) /\ m.operatingCashFlow.r.n < 0
    THEN NumV(RatDiv(RatAbs(m.operatingCashFlow.r), RatInt(3)))
    ELSE IF IsNum(m.operatingExpenses)
    THEN NumV(RatMax(RatDiv(m.operatingExpenses.r, RatInt(12)), RatInt(1)))
    ELSE IF IsNum(m.freeCashFlow) /\ m.freeCashFlow.r.n < 0
    THEN NumV(RatDiv(RatAbs(m.freeCashFlow.r), RatInt(3)))
    ELSE Undefined

\* the runway as claimed: cash over burn, absent when cash is absent or zero
\* or the burn is absent or not positive
ClaimedRunway(cash, burn) ==
    IF ~IsNum(cash) \/ cash.r.n = 0 \/ ~IsNum(burn) \/ burn.r.n <= 0
    THEN Undefined
    ELSE NumV(RatDiv(cash.r, burn.r))

\* C18: buildMockFinancialReport takes monthlyBurn as |operatingCashFlow|/3
\* when the operating cash flow is negative, else as max(operatingExpenses/12,
\* 1) when operating expenses were found, a value of 0 included, else as
\* |freeCashFlow|/3 when the free cash flow is negative, else as absent; and
\* runwayMonths as cash/monthlyBurn, absent when cash is absent or zero or
\* monthlyBurn is absent or not positive. A monthlyBurn that is present is
\* positive.
C18_BurnAndRunway ==
    pc = "mockDone" =>
        LET m == MockMetrics(input)
        IN  /\ m.monthlyBurn = ClaimedBurn(m)
            /\ m.runwayMonths = ClaimedRunway(m.cash, m.monthlyBurn)
            /\ IsNum(m.monthlyBurn) => m.monthlyBurn.r.n > 0

-----------------------------------------------------------------------------
(* Properties of the candidate chains of runCallNotesAgent *)

\* what Resolve gives for the first of candidates it accepts (gives a value
\* other than Undefined for), or Undefined when it accepts none
FirstResolved(candidates, Resolve(_)) ==
    IF \E i \in 1..Len(candidates) : Resolve(candidates[i]) # Undefined
    THEN Resolve(candidates[
             CHOOSE i \in 1..Len(candidates) :
                 /\ Resolve(candidates[i]) # Undefined
                 /\ \A j \in 1..(i - 1) : Resolve(candidates[j]) = Undefined])
    ELSE Undefined

\* the values of the variables named keys, in that order
Candidates(response, keys) ==
    [i \in 1..Len(keys) |-> Get(extractVariables(response), Str(keys[i]))]

\* the sentiment of value when it carries a label, else Undefined
LabelledSentiment(value) ==
    IF LabelResolvable(value) THEN parseSentimentValue(value) ELSE Undefined

\* C19: every field of the result of runCallNotesAgent is resolved from the
\* first of its candidates, in priority order, that is present and well-typed:
\* the summary from the first of summary, callSummary and the raw answer that
\* is a non-blank string, each list from the first candidate that gives a
\* non-empty list, the sentiment from the first candidate that carries a
\* label, the duration from the first candidate that is a number.
C19_FirstWellTypedCandidate ==
    pc = "callDone" =>
        /\ callResult.summary =
              FirstResolved(Candidates(raw, <<"summary", "callSummary">>)
                                \o <<raw.answer>>, getStringValue)
        /\ callResult.nextSteps =
              FirstResolved(Candidates(raw, <<"nextSteps", "nextsteps", "followUps">>),
                            normalizeArray)
        /\ callResult.actionItems =
              FirstResolved(Candidates(raw, <<"actionItems", "actionitems", "nextSteps">>),
                            normalizeArray)
        /\ callResult.objections =
              FirstResolved(Candidates(raw, <<"objections", "concerns", "risks">>),
                            normalizeArray)
        /\ callResult.tags =
              FirstResolved(Candidates(raw, <<"tags", "labels">>), normalizeArray)
        /\ callResult.sentiment =
              (IF FirstResolved(Candidates(raw, <<"sentiment", "sentimentAnalysis">>),
                                LabelledSentiment) = Undefined
               THEN [label |-> Str("Neutral"), score |-> RatInt(0)]
               ELSE FirstResolved(Candidates(raw, <<"sentiment", "sentimentAnalysis">>),
                                  LabelledSentiment))
        /\ callResult.durationMinutes =
              FirstResolved(Candidates(raw, <<"durationMinutes",
                                              "estimatedDurationMinutes">>),
                            parseNumberValue)

-----------------------------------------------------------------------------
(* Properties of the statement uploads *)

\* no conversion for field is awaited
Settled(field) == \A u \in uploads : u.field # field

\* the file name shown for field and the text stored for it agree: no name
\* exactly when the text is empty, and a name is that of a file whose
\* conversion gives the stored text
NameMatchesText(field) ==
    /\ uploadedFiles[field] = Null <=> form[field] = <<>>
    /\ uploadedFiles[field] # Null =>
          \E file \in Files :
              /\ StrV(file.name) = uploadedFiles[field]
              /\ file.json = StrV(form[field])

\* C20: whatever the interleaving of uploads (each suspended while its
\* conversion runs, then succeeding with a non-empty text or failing) and of
\* clear actions, for a statement field with no conversion awaited
\* uploadedFiles[field] is null exactly when form[field] is '' and a file name
\* shown is the name of the file whose conversion produced the stored text;
\* rejecting a file that is no spreadsheet changes neither.
C20_FileNameMatchesText ==
    [][ /\ \A field \in StatementFields :
              Settled(field)' => NameMatchesText(field)'
        /\ RejectFile => (form' = form /\ uploadedFiles' = uploadedFiles) ]_vars

\* the balance sheet holds the later of two uploads while a conversion for
\* the income statement, cleared meanwhile, is still awaited
C20_Witness ==
    /\ Settled("balanceSheet")
    /\ uploadedFiles["balanceSheet"] = StrV(Str("fy.csv"))
    /\ form["balanceSheet"] = Str("[{\"Operating cash flow\":-90}]")
    /\ ~Settled("incomeStatement")
    /\ uploadedFiles["incomeStatement"] = Null
    /\ error = StrV(Str("We could not parse that spreadsheet. Export a clean .xlsx and re-upload."))

=============================================================================
